---------------------------- MODULE Spec2Model ----------------------------
(***************************************************************************)
(* A state-machine model of the Enigma2 DVR manager (src/dvr_manager.py):  *)
(* the sqlite cache (tables recordings and downloads), the reconciliation  *)
(* of a directory scan with that cache (process_recordings,                *)
(* process_downloads), the batch mutations of the event loop               *)
(* (update_attribute) and the drop-commit (drop_recording).                *)
(*                                                                         *)
(* Python values are represented as follows.                               *)
(*   - a str whose characters matter (titles, groupkeys, channels) is a    *)
(*     sequence of one-character strings; other strs are TLA+ strings;     *)
(*   - None for a basepath is the empty tuple NoPath; a basepath is the    *)
(*     pair <<directory, basename>>;                                       *)
(*   - Optional[row] is a sequence of length 0 or 1;                       *)
(*   - a table of the database is the sequence of its rows in rowid order  *)
(*     (an INSERT appends), holding what has been committed;               *)
(*   - Python objects live in heap (a sequence, an object's reference is   *)
(*     its index), so that two list positions can hold the same object.    *)
(***************************************************************************)
EXTENDS Integers, Sequences, FiniteSets, TLC

VARIABLES
    disk,              \* file system: basepath -> [exts, size]
    drop_log,          \* lines of the file DROPPED_FILE
    db_rec,            \* table recordings (committed rows, rowid order)
    db_dl,             \* table downloads  (committed rows, rowid order)
    pc,                \* position of the process
    heap,              \* the Entry objects of the running process
    global_entrylist,  \* references into heap
    files,             \* the scan result being processed
    idx,               \* loop index of the running loop (1-based)
    db_count,          \* db_count of process_recordings / process_downloads
    cur,               \* reference of the object whose INSERT is pending
    all_downloads,     \* all_downloads of process_downloads (references)
    sel,               \* recordingBox_selected_rec (references)
    ev,                \* the event being handled: [key, comment]
    for_deletion,      \* for_deletion of the dropButton handler (references)
    report,            \* the counts printed by the last reconciliation
    radios,            \* radios_metadata_previous: <<order_by, sort_order>>
    nenv,              \* number of file system changes so far
    nevents,           \* number of user events (store operations) so far
    hist               \* history (not program state): see each use

vars == <<disk, drop_log, db_rec, db_dl, pc, heap, global_entrylist, files,
          idx, db_count, cur, all_downloads, sel, ev, for_deletion, report,
          radios, nenv, nevents, hist>>

---------------------------------------------------------------------------
(* Bounds of the model *)

\* user events and changes of the file system in one behaviour
MaxInputs == 2
\* sizes a file can have: 1..MaxSize
MaxSize == 2
\* db_save / db_remove calls in one behaviour of the store alone
MaxStoreOps == 3

---------------------------------------------------------------------------
(* Program constants *)

E2_VIDEO_EXTENSION == ".ts"
E2_META_EXTENSION == ".ts.meta"
E2_EXTENSIONS == <<".eit", ".ts", ".ts.ap", ".ts.cuts", ".ts.meta", ".ts.sc">>

NoPath == <<>>

Range(s) == {s[i] : i \in 1..Len(s)}

---------------------------------------------------------------------------
(* Python string helpers on sequences of characters *)

RECURSIVE Flatten(_)
Flatten(ss) == IF ss = <<>> THEN <<>> ELSE Head(ss) \o Flatten(Tail(ss))

UpperLetters == <<"A", "B", "C", "D", "E", "F", "G", "H", "I", "J", "K", "L", "M",
                  "N", "O", "P", "Q", "R", "S", "T", "U", "V", "W", "X", "Y", "Z",
                  "Ä", "Ö", "Ü">>
LowerLetters == <<"a", "b", "c", "d", "e", "f", "g", "h", "i", "j", "k", "l", "m",
                  "n", "o", "p", "q", "r", "s", "t", "u", "v", "w", "x", "y", "z",
                  "ä", "ö", "ü">>
Digits == <<"0", "1", "2", "3", "4", "5", "6", "7", "8", "9">>

\* a str.lower() that leaves every character as it is
KeepChar(c) == c

\* str.lower() of one character
LowerChar(c) ==
    IF \E i \in 1..Len(UpperLetters) : UpperLetters[i] = c
    THEN LowerLetters[CHOOSE i \in 1..Len(UpperLetters) : UpperLetters[i] = c]
    ELSE c

\* str.translate(GROUPKEY_TRANSLATIONS) of one character
GROUPKEY_TRANSLATIONS(c) ==
    CASE c = "ä" -> <<"a", "e">>
      [] c = "ö" -> <<"o", "e">>
      [] c = "ü" -> <<"u", "e">>
      [] c = "ß" -> <<"s", "s">>
      [] OTHER   -> <<c>>

\* a pattern that removes nothing
IsAnyChar(c) == TRUE

\* the characters the pattern [^a-z0-9]+ leaves
IsGroupkeyChar(c) ==
    \/ \E i \in 1..26 : LowerLetters[i] = c
    \/ \E i \in 1..Len(Digits) : Digits[i] = c

make_groupkey(line) ==
    LET lowered    == [i \in 1..Len(line) |-> LowerChar(line[i])]
        translated == Flatten([i \in 1..Len(lowered) |-> GROUPKEY_TRANSLATIONS(lowered[i])])
    IN  SelectSeq(translated, IsGroupkeyChar)

IsPrefix(p, s) == Len(p) <= Len(s) /\ SubSeq(s, 1, Len(p)) = p

\* re.sub(^prefix, "~", line): a leading prefix is replaced by a tilde
remove_prefix(line, prefix) ==
    IF IsPrefix(prefix, line)
    THEN <<"~">> \o SubSeq(line, Len(prefix) + 1, Len(line))
    ELSE line

---------------------------------------------------------------------------
(* The files the scans can meet.  A basepath is <<directory, basename>>;   *)
(* the lists give the order in which scan_directories returns the paths.   *)
(* The basename r1 exists in two directories.                              *)

RecPathList == << <<"A", "r1">>, <<"A", "r2">>, <<"B", "r1">> >>
DlPathList  == << <<"A", "d1">>, <<"A", "bad">> >>

RecPaths == Range(RecPathList)
DlPaths  == Range(DlPathList)

\* os.path.basename
Basename(basepath) == basepath[2]

\* the three lines of a recording's .ts.meta file, after strip():
\* channel (text after the last colon), title, title followed by description
MetaFile(basepath) ==
    CASE Basename(basepath) = "r1" ->
            [channel |-> <<"z", "d", "f">>, title |-> <<"T", "a">>,
             third |-> <<"T", "a", "x">>]
      [] OTHER ->
            [channel |-> <<>>, title |-> <<"t", "-", "ä">>,
             third |-> <<"y">>]

\* file_basename.split(" - "): time stamp token, channel, title.
\* The time stamp token "%Y%m%d %H%M" is given as <<date, time>>.
BasenameTokens(basename) ==
    CASE basename = "r1" -> [stamp |-> <<20200101, 2015>>, channel |-> <<"z", "d", "f">>,
                             title |-> <<"T", "a">>]
      [] OTHER           -> [stamp |-> <<20200102, 1800>>, channel |-> <<"a", "r", "d">>,
                             title |-> <<"t", "a", "e">>]

\* strptime("%Y%m%d %H%M") then strftime("%Y-%m-%d %H:%M"): the text
\* "YYYY-MM-DD HH:MM" is represented by the pair <<YYYYMMDD, HHMM>>, which
\* orders as the text does.
FormatTimestamp(stamp) == <<stamp[1], stamp[2]>>

\* what cv2.VideoCapture reads from the video file of a basepath
VideoProps(basepath) ==
    CASE Basename(basepath) = "r1" -> [fps |-> 25, frames |-> 2500, height |-> 720, width |-> 1280]
      [] Basename(basepath) = "r2" -> [fps |-> 0,  frames |-> 0,    height |-> 576, width |-> 720]
      [] OTHER                     -> [fps |-> 30, frames |-> 900,  height |-> 1080, width |-> 1920]

\* a pattern every name matches
DL_REGEX_ANY(basename) ==
    << [g1 |-> <<"T", "a">>, g2 |-> "2020", g3 |-> "k=v", g4 |-> <<"n", "f">>] >>

\* DL_REGEX_PATTERN.match(file_basename): <<>> when the name does not match,
\* else the four groups (title, year, tag, source)
DL_REGEX_PATTERN(basename) ==
    CASE basename = "d1" -> << [g1 |-> <<"T", "a">>, g2 |-> "2020", g3 |-> "k=v", g4 |-> <<"n", "f">>] >>
      [] basename = "r1" -> << [g1 |-> <<"t", "a">>, g2 |-> "2019", g3 |-> "k=w", g4 |-> <<"y", "t">>] >>
      [] OTHER           -> <<>>

get_video_metadata(basepath) ==
    LET v == VideoProps(basepath)
    IN  [video_duration |-> IF v.fps # 0 THEN v.frames \div v.fps ELSE -1,
         video_height   |-> v.height,
         video_width    |-> v.width,
         video_fps      |-> v.fps]

\* os.path.exists(basepath + e)
Exists(d, basepath, e) == e \in d[basepath].exts

\* os.stat(basepath + extension).st_size of the video file
StatSize(d, basepath) == d[basepath].size

\* scan_directories: the paths whose video file exists, in listing order
scan_directories(d, pathList, ext) ==
    SelectSeq(pathList, LAMBDA p : Exists(d, p, ext))

---------------------------------------------------------------------------
(* The sqlite tables.  Python's True/False are stored as 1/0, which Python *)
(* compares equal to True/False; they are BOOLEAN here.                    *)

HasRow(tbl, basename) == \E i \in 1..Len(tbl) : tbl[i].file_basename = basename

RowCount(tbl, basename) == Cardinality({i \in 1..Len(tbl) : tbl[i].file_basename = basename})

\* DELETE FROM <table> WHERE file_basename = ?
DeleteWhere(tbl, basename) == SelectSeq(tbl, LAMBDA r : r.file_basename # basename)

\* a db_remove_rec that deletes nothing
db_remove_nothing(tbl, basename) == tbl

\* a db_remove_rec without the WHERE clause
db_remove_every(tbl, basename) == <<>>

\* a DELETE that removes the oldest row of the table, whatever its basename
db_remove_oldest(tbl, basename) ==
    IF tbl = <<>> THEN tbl ELSE Tail(tbl)

\* the table after db_remove_rec / db_remove_dl has committed
db_remove_rec(tbl, basename) == DeleteWhere(tbl, basename)
db_remove_dl(tbl, basename) == DeleteWhere(tbl, basename)

\* assert c.rowcount <= 1 of db_remove_rec / db_remove_dl
RemoveAssertHolds(tbl, basename) == RowCount(tbl, basename) <= 1

\* INSERT INTO <table>: file_basename is the PRIMARY KEY, an INSERT of a
\* key that has a row raises sqlite3.IntegrityError and adds nothing
InsertRaises(tbl, row) == HasRow(tbl, row.file_basename)
InsertInto(tbl, row) == IF InsertRaises(tbl, row) THEN tbl ELSE Append(tbl, row)

\* the parameter tuple of the INSERT of db_save_rec
RecordingRow(rec) ==
    [file_basename   |-> rec.file_basename,
     file_size       |-> rec.file_size,
     epg_channel     |-> rec.epg_channel,
     epg_title       |-> rec.epg_title,
     epg_description |-> rec.epg_description,
     video_duration  |-> rec.video_duration,
     video_height    |-> rec.video_height,
     video_width     |-> rec.video_width,
     video_fps       |-> rec.video_fps,
     is_good         |-> rec.is_good,
     is_dropped      |-> rec.is_dropped,
     is_mastered     |-> rec.is_mastered,
     groupkey        |-> rec.groupkey,
     comment         |-> rec.comment,
     timestamp       |-> rec.timestamp]

\* the parameter tuple of the INSERT of db_save_dl
DownloadRow(dl) ==
    [file_basename  |-> dl.file_basename,
     file_size      |-> dl.file_size,
     dl_source      |-> dl.dl_source,
     dl_title       |-> dl.dl_title,
     dl_description |-> dl.dl_description,
     video_duration |-> dl.video_duration,
     video_height   |-> dl.video_height,
     video_width    |-> dl.video_width,
     video_fps      |-> dl.video_fps,
     groupkey       |-> dl.groupkey,
     comment        |-> dl.comment]

\* db_save_rec / db_save_dl: db_remove and its commit, then the INSERT and
\* its commit
db_save_rec(tbl, rec) == InsertInto(db_remove_rec(tbl, rec.file_basename), RecordingRow(rec))
db_save_dl(tbl, dl) == InsertInto(db_remove_dl(tbl, dl.file_basename), DownloadRow(dl))

\* the Recording object db_load_rec / db_load_rec_mastered_all build from a
\* row; basepath is the value the factory assigns right after
RecordingOfRow(raw, basepath) ==
    [class           |-> "Recording",
     basepath        |-> basepath,
     file_basename   |-> raw.file_basename,
     file_size       |-> raw.file_size,
     epg_channel     |-> raw.epg_channel,
     epg_title       |-> raw.epg_title,
     epg_description |-> raw.epg_description,
     video_duration  |-> raw.video_duration,
     video_height    |-> raw.video_height,
     video_width     |-> raw.video_width,
     video_fps       |-> raw.video_fps,
     is_good         |-> raw.is_good,
     is_dropped      |-> raw.is_dropped,
     is_mastered     |-> raw.is_mastered,
     groupkey        |-> raw.groupkey,
     comment         |-> raw.comment,
     timestamp       |-> raw.timestamp]

\* the Download object db_load_dl_all builds from a row; basepath and
\* file_extension are not set until process_downloads matches a file
DownloadOfRow(raw) ==
    [class          |-> "Download",
     basepath       |-> NoPath,
     file_extension |-> "",
     file_basename  |-> raw.file_basename,
     file_size      |-> raw.file_size,
     dl_source      |-> raw.dl_source,
     dl_title       |-> raw.dl_title,
     dl_description |-> raw.dl_description,
     video_duration |-> raw.video_duration,
     video_height   |-> raw.video_height,
     video_width    |-> raw.video_width,
     video_fps      |-> raw.video_fps,
     groupkey       |-> raw.groupkey,
     comment        |-> raw.comment]

\* db_load_rec: the row of the basename (fetchone), if any
db_load_rec(tbl, basename) ==
    LET hits == SelectSeq(tbl, LAMBDA r : r.file_basename = basename)
    IN  IF hits = <<>> THEN <<>> ELSE <<Head(hits)>>

\* db_load_rec_mastered_all: the rows WHERE is_mastered = TRUE
db_load_rec_mastered_all(tbl) == SelectSeq(tbl, LAMBDA r : r.is_mastered)

\* db_load_dl_all: every row of downloads
db_load_dl_all(tbl) == tbl

---------------------------------------------------------------------------
(* RecordingFactory and DownloadFactory *)

\* an open() of the meta file that never raises
OpenNeverRaises(d, basepath, meta_file_extension) == FALSE

\* open(basepath + meta_file_extension) raises FileNotFoundError
MetaFileNotFound(d, basepath, meta_file_extension) == ~Exists(d, basepath, meta_file_extension)

\* from_meta_file: <<>> when the meta file is missing, else the new Recording
from_meta_file(d, basepath, meta_file_extension) ==
    IF MetaFileNotFound(d, basepath, meta_file_extension) THEN <<>>
    ELSE
    LET meta    == MetaFile(basepath)
        tokens  == BasenameTokens(Basename(basepath))
        video   == get_video_metadata(basepath)
        channel == IF Len(meta.channel) = 0 THEN tokens.channel ELSE meta.channel
        title   == IF Len(meta.title) = 0 THEN tokens.title ELSE meta.title
    IN  << [class           |-> "Recording",
            basepath        |-> basepath,
            file_basename   |-> Basename(basepath),
            file_size       |-> StatSize(d, basepath),
            epg_channel     |-> channel,
            epg_title       |-> title,
            epg_description |-> remove_prefix(meta.third, meta.title),
            video_duration  |-> video.video_duration,
            video_height    |-> video.video_height,
            video_width     |-> video.video_width,
            video_fps       |-> video.video_fps,
            is_good         |-> FALSE,
            is_dropped      |-> FALSE,
            is_mastered     |-> FALSE,
            groupkey        |-> make_groupkey(title),
            comment         |-> "",
            timestamp       |-> FormatTimestamp(tokens.stamp)] >>

\* a from_database without its assert
SizeAssertDropped(tbl, d, basepath) == TRUE

\* the assert of from_database: the stored size is the size on disk
SizeAssertHolds(tbl, d, basepath) ==
    \A i \in 1..Len(db_load_rec(tbl, Basename(basepath))) :
        db_load_rec(tbl, Basename(basepath))[i].file_size = StatSize(d, basepath)

\* from_database: <<>> when the basename has no row, else the Recording
from_database(tbl, basepath) ==
    LET hit == db_load_rec(tbl, Basename(basepath))
    IN  IF hit = <<>> THEN <<>> ELSE <<RecordingOfRow(hit[1], basepath)>>

\* a from_database_mastered_all that keeps the stored file_size
from_database_mastered_all_sized(tbl) ==
    LET all_mastered == db_load_rec_mastered_all(tbl)
    IN  [i \in 1..Len(all_mastered) |-> RecordingOfRow(all_mastered[i], NoPath)]

\* from_database_mastered_all
from_database_mastered_all(tbl) ==
    LET all_mastered == db_load_rec_mastered_all(tbl)
    IN  [i \in 1..Len(all_mastered) |->
            [RecordingOfRow(all_mastered[i], NoPath) EXCEPT !.file_size = 0]]

\* the assert of from_video_file: the basename matches DL_REGEX_PATTERN
MatchAssertHolds(basepath) == DL_REGEX_PATTERN(Basename(basepath)) # <<>>

\* from_video_file (its assert holding)
from_video_file(d, basepath, video_file_extension) ==
    LET match == DL_REGEX_PATTERN(Basename(basepath))[1]
        video == get_video_metadata(basepath)
    IN  [class          |-> "Download",
         basepath       |-> basepath,
         file_extension |-> video_file_extension,
         file_basename  |-> Basename(basepath),
         file_size      |-> StatSize(d, basepath),
         dl_source      |-> match.g4,
         dl_title       |-> match.g1,
         dl_description |-> <<match.g2, match.g3>>,
         video_duration |-> video.video_duration,
         video_height   |-> video.video_height,
         video_width    |-> video.video_width,
         video_fps      |-> video.video_fps,
         groupkey       |-> make_groupkey(match.g1),
         comment        |-> ""]

\* Recording.__eq__ / Download.__eq__: same class and same file_basename
EntryEq(a, b) == a.class = b.class /\ a.file_basename = b.file_basename

---------------------------------------------------------------------------
(* sort_global_entrylist.  A sort key is a tuple of components; a          *)
(* component is given as a sequence of integers that orders as the Python  *)
(* value does (a str: its character codes, an int or bool: one number).    *)

\* characters in code point order
CodeOrder == <<" ", "-">> \o Digits \o SubSeq(UpperLetters, 1, 26) \o
             SubSeq(LowerLetters, 1, 26) \o <<"~", "Ä", "Ö", "Ü", "ß", "ä", "ö", "ü">>

\* ord(c) as the position in CodeOrder, tabulated once
CodeTable ==
    [c \in Range(CodeOrder) |-> CHOOSE i \in 1..Len(CodeOrder) : CodeOrder[i] = c] @@ <<>>

CharCode(c) == IF c \in DOMAIN CodeTable THEN CodeTable[c] ELSE 0

StrCodes(str) == [i \in 1..Len(str) |-> CharCode(str[i])] \o <<>>

\* a < b for two strs (or two numbers) given as integer sequences
CompLess(a, b) ==
    \E k \in 1..(Len(a) + 1) :
        /\ k <= Len(b)
        /\ \A j \in 1..(k - 1) : a[j] = b[j]
        /\ (k = Len(a) + 1 \/ a[k] < b[k])

\* x < y for two tuples of the same length
KeyLess(x, y) ==
    \E k \in 1..Len(x) :
        /\ \A j \in 1..(k - 1) : x[j] = y[j]
        /\ CompLess(x[k], y[k])

\* the values of the entries of the list, in list order
Collection(h, list) == [k \in 1..Len(list) |-> h[list[k]]]

\* a bool as a number: False < True
BoolNum(b) == IF b THEN 1 ELSE 0

RECURSIVE SumSize(_)
SumSize(entries) ==
    IF entries = <<>> THEN 0 ELSE Head(entries).file_size + SumSize(Tail(entries))

RECURSIVE MaxSizeOf(_)
MaxSizeOf(entries) ==
    IF entries = <<>> THEN 0
    ELSE LET m == MaxSizeOf(Tail(entries))
         IN  IF Head(entries).file_size > m THEN Head(entries).file_size ELSE m

\* groupkey_aggregates[groupkey] after the first loop of
\* sort_global_entrylist: only a Recording sets the any_ entries, and
\* get(name, False) reads an entry that was never set as False
groupkey_aggregates(h, list, groupkey) ==
    LET members    == SelectSeq(Collection(h, list), LAMBDA e : e.groupkey = groupkey)
        recordings == SelectSeq(members, LAMBDA e : e.class = "Recording")
    IN  [max_size     |-> MaxSizeOf(members),
         sum_size     |-> SumSize(members),
         count        |-> Len(members),
         any_drop     |-> \E i \in 1..Len(recordings) : recordings[i].is_dropped,
         any_good     |-> \E i \in 1..Len(recordings) : recordings[i].is_good,
         any_mastered |-> \E i \in 1..Len(recordings) : recordings[i].is_mastered]

\* sum_size / count is a float; the quotients of two groups compare as the
\* integers sum_size * AvgScale \div count do, AvgScale being a multiple of
\* every count that occurs
AvgScale == 60

\* the first component of the tuple lambdas[order_by] returns for entry e,
\* meta being groupkey_aggregates[e.groupkey]
Primary(order_by, e, meta) ==
    LET isRec == e.class = "Recording"
    IN  CASE order_by = "channel"       -> StrCodes(IF isRec THEN e.epg_channel ELSE e.dl_source)
          [] order_by = "date"          -> IF isRec THEN e.timestamp ELSE <<>>
          [] order_by = "time"          -> IF isRec THEN <<e.timestamp[2]>> ELSE <<>>
          [] order_by = "attr_good"     -> <<BoolNum(~(IF isRec THEN e.is_good ELSE TRUE))>>
          [] order_by = "attr_mastered" -> <<BoolNum(~(IF isRec THEN e.is_mastered ELSE TRUE))>>
          [] order_by = "attr_dropped"  -> <<BoolNum(~(IF isRec THEN e.is_dropped ELSE FALSE))>>
          [] order_by = "duration"      -> <<e.video_duration>>
          [] order_by = "resolution"    -> <<e.video_height>>
          [] order_by = "size"          -> <<e.file_size>>
          [] order_by = "max_size"      -> <<meta.max_size>>
          [] order_by = "sum_size"      -> <<meta.sum_size>>
          [] order_by = "avg_size"      -> <<(meta.sum_size * AvgScale) \div meta.count>>
          [] order_by = "count"         -> <<meta.count>>
          [] order_by = "any_drop"      -> <<BoolNum(~meta.any_drop)>>
          [] order_by = "any_good"      -> <<BoolNum(~meta.any_good)>>
          [] order_by = "any_mastered"  -> <<BoolNum(~meta.any_mastered)>>

\* lambdas whose tuples have lost the groupkey
SortKeyPrimaryOnly(order_by, e, meta) ==
    IF order_by = "title" THEN <<StrCodes(e.groupkey)>>
    ELSE <<Primary(order_by, e, meta)>>

\* lambdas[order_by], applied to entry e: "title" gives the groupkey alone,
\* every other criterion the pair (primary, groupkey)
SortKey(order_by, e, meta) ==
    IF order_by = "title" THEN <<StrCodes(e.groupkey)>>
    ELSE <<Primary(order_by, e, meta), StrCodes(e.groupkey)>>

\* a placement that puts x before the entries of the sorted prefix with
\* the same key
InsertBeforeEqual(sorted, keyOf, x, reverse) ==
    LET before(k) == IF reverse THEN ~KeyLess(keyOf[x], keyOf[sorted[k]])
                                ELSE ~KeyLess(keyOf[sorted[k]], keyOf[x])
    IN  IF \E k \in 1..Len(sorted) : before(k)
        THEN CHOOSE k \in 1..Len(sorted) : before(k) /\ \A j \in 1..(k - 1) : ~before(j)
        ELSE Len(sorted) + 1

\* list.sort(key, reverse) is stable in both directions: entries with equal
\* keys keep their order.  One entry x is placed into the sorted prefix.
InsertPosition(sorted, keyOf, x, reverse) ==
    LET before(k) == IF reverse THEN KeyLess(keyOf[sorted[k]], keyOf[x])
                                ELSE KeyLess(keyOf[x], keyOf[sorted[k]])
    IN  IF \E k \in 1..Len(sorted) : before(k)
        THEN CHOOSE k \in 1..Len(sorted) : before(k) /\ \A j \in 1..(k - 1) : ~before(j)
        ELSE Len(sorted) + 1

\* a sort that keeps one entry per primary value (sorted over a dict keyed by
\* the first component of the keys)
RECURSIVE SortDistinctPrimary(_, _, _, _)
SortDistinctPrimary(sorted, rest, keyOf, reverse) ==
    IF rest = <<>> THEN sorted
    ELSE LET x == Head(rest)
             k == InsertPosition(sorted, keyOf, x, reverse)
         IN  IF \E j \in 1..Len(sorted) : keyOf[sorted[j]][1] = keyOf[x][1]
             THEN SortDistinctPrimary(sorted, Tail(rest), keyOf, reverse)
             ELSE SortDistinctPrimary(SubSeq(sorted, 1, k - 1) \o <<x>> \o
                                   SubSeq(sorted, k, Len(sorted)),
                                   Tail(rest), keyOf, reverse)

RECURSIVE StableSort(_, _, _, _)
StableSort(sorted, rest, keyOf, reverse) ==
    IF rest = <<>> THEN sorted
    ELSE LET x == Head(rest)
             k == InsertPosition(sorted, keyOf, x, reverse)
         IN  StableSort(SubSeq(sorted, 1, k - 1) \o <<x>> \o SubSeq(sorted, k, Len(sorted)),
                        Tail(rest), keyOf, reverse)

\* the list of references after sort_global_entrylist(order_by, sort_order);
\* keyOf holds the key of every entry of the list, computed once as
\* list.sort(key=...) does
sort_global_entrylist(h, list, order_by, sort_order) ==
    LET keyOf == [r \in 1..Len(h) |->
                     IF r \in Range(list)
                     THEN SortKey(order_by, h[r], groupkey_aggregates(h, list, h[r].groupkey))
                     ELSE <<>>] \o <<>>
    IN  StableSort(<<>>, list, keyOf, sort_order = "DESC")

---------------------------------------------------------------------------
(* State of the file system and of the process *)

DL_VIDEO_EXTENSION == ".mp4"

InitDisk ==
    [p \in RecPaths \cup DlPaths |->
        CASE p = <<"A", "r1">> -> [exts |-> Range(E2_EXTENSIONS), size |-> 1]
          [] p = <<"A", "r2">> -> [exts |-> {".ts", ".ts.meta", ".eit"}, size |-> MaxSize]
          [] p = <<"B", "r1">> -> [exts |-> {".ts", ".ts.ap"}, size |-> 1]
          [] p = <<"A", "d1">> -> [exts |-> {DL_VIDEO_EXTENSION}, size |-> 1]
          [] OTHER             -> [exts |-> {}, size |-> 1]]

NoReport == [rec |-> <<>>, dl |-> <<>>]
NoEvent == [key |-> "", comment |-> ""]

\* the identities the store is called with when it is taken alone
StoreKeys == {<<"Recording", "r1">>, <<"Recording", "r2">>,
              <<"Download", "d1">>, <<"Download", "r1">>}

\* history kept for the properties; no action reads it
InitHist ==
    [hits     |-> 0,      \* scanned recordings loaded from the store in this run
     built    |-> 0,      \* scanned recordings built from metadata in this run
     skipped  |-> 0,      \* scanned recordings skipped in this run
     rec_scan |-> <<>>,   \* the recording scan of this run
     start_db |-> <<>>,   \* <<db_rec, db_dl>> when this run started
     prev     |-> <<>>,   \* the last reconciliation, while nothing has changed since
     first    |-> <<>>,   \* the collection of the reconciliation before prev, if
                          \* prev is a second run over the same files and store
     excl     |-> {},     \* keys whose precondition has rejected an entry
     log_len  |-> 0,      \* length of the drop log when Drop was pressed
     last     |-> [k \in StoreKeys |-> <<>>],
                          \* per identity: the entry of its last db_save, if that
                          \* is the last call made for the identity
     old_row  |-> <<>>,   \* the row the db_save in progress has deleted
     replaced |-> {},     \* identities a db_save gave a row with other values
     torn     |-> <<>>,   \* identity of a db_save that has deleted a row and was
                          \* killed before its INSERT, until the next call
     removed  |-> <<>>]   \* identity whose row the last call, a db_remove on its
                          \* own, has deleted

\* the process is not running: nothing is in memory
NoProcess ==
    /\ heap = <<>>
    /\ global_entrylist = <<>>
    /\ files = <<>>
    /\ idx = 1
    /\ db_count = 0
    /\ cur = 0
    /\ all_downloads = <<>>
    /\ sel = <<>>
    /\ ev = NoEvent
    /\ for_deletion = <<>>
    /\ report = NoReport
    /\ radios = <<"title", "ASC">>

Init ==
    /\ disk = InitDisk
    /\ drop_log = <<>>
    /\ db_rec = <<>>
    /\ db_dl = <<>>
    /\ pc = "off"
    /\ NoProcess
    /\ nenv = 0
    /\ nevents = 0
    /\ hist = InitHist

procVars == <<heap, global_entrylist, files, idx, db_count, cur, all_downloads,
              sel, ev, for_deletion, report, radios>>
storeVars == <<db_rec, db_dl>>

---------------------------------------------------------------------------
(* The world outside the process: files change while it is not running *)

\* all files of a recording are deleted (by the consumer of the drop log,
\* or by the user after mastering)
EnvDelete(p) ==
    /\ pc \in {"off", "aborted"}
    /\ nenv + nevents < MaxInputs
    /\ p \in RecPaths
    /\ disk[p].exts # {}
    /\ disk' = [disk EXCEPT ![p].exts = {}]
    /\ nenv' = nenv + 1
    /\ hist' = [hist EXCEPT !.prev = <<>>, !.first = <<>>]
    /\ UNCHANGED <<drop_log, storeVars, pc, procVars, nevents>>

\* the meta file of a recording is lost
EnvRemoveMeta(p) ==
    /\ pc \in {"off", "aborted"}
    /\ nenv + nevents < MaxInputs
    /\ p \in RecPaths
    /\ E2_META_EXTENSION \in disk[p].exts
    /\ disk' = [disk EXCEPT ![p].exts = @ \ {E2_META_EXTENSION}]
    /\ nenv' = nenv + 1
    /\ hist' = [hist EXCEPT !.prev = <<>>, !.first = <<>>]
    /\ UNCHANGED <<drop_log, storeVars, pc, procVars, nevents>>

\* the video file of a recording changes its size
EnvResize(p, n) ==
    /\ pc \in {"off", "aborted"}
    /\ nenv + nevents < MaxInputs
    /\ p \in RecPaths
    /\ E2_VIDEO_EXTENSION \in disk[p].exts
    /\ n \in 1..MaxSize
    /\ n # disk[p].size
    /\ disk' = [disk EXCEPT ![p].size = n]
    /\ nenv' = nenv + 1
    /\ hist' = [hist EXCEPT !.prev = <<>>, !.first = <<>>]
    /\ UNCHANGED <<drop_log, storeVars, pc, procVars, nevents>>

\* a download appears
EnvCreate(p) ==
    /\ pc \in {"off", "aborted"}
    /\ nenv + nevents < MaxInputs
    /\ p \in DlPaths
    /\ disk[p].exts = {}
    /\ disk' = [disk EXCEPT ![p].exts = {DL_VIDEO_EXTENSION}]
    /\ nenv' = nenv + 1
    /\ hist' = [hist EXCEPT !.prev = <<>>, !.first = <<>>]
    /\ UNCHANGED <<drop_log, storeVars, pc, procVars, nevents>>

---------------------------------------------------------------------------
(* main: start and reconciliation *)

\* main up to the first iteration of process_recordings
Start ==
    /\ pc \in {"off", "aborted"}
    /\ pc' = "process_recordings"
    /\ heap' = <<>>
    /\ global_entrylist' = <<>>
    /\ files' = scan_directories(disk, RecPathList, E2_VIDEO_EXTENSION)
    /\ idx' = 1
    /\ db_count' = 0
    /\ cur' = 0
    /\ all_downloads' = <<>>
    /\ sel' = <<>>
    /\ ev' = NoEvent
    /\ for_deletion' = <<>>
    /\ report' = NoReport
    /\ radios' = <<"title", "ASC">>
    /\ hist' = [hist EXCEPT !.hits = 0, !.built = 0, !.skipped = 0,
                            !.rec_scan = scan_directories(disk, RecPathList, E2_VIDEO_EXTENSION),
                            !.start_db = <<db_rec, db_dl>>]
    /\ UNCHANGED <<disk, drop_log, storeVars, nenv, nevents>>

\* process_recordings, one file: the basename has a row of the right size
ProcRecHit ==
    /\ pc = "process_recordings"
    /\ idx <= Len(files)
    /\ from_database(db_rec, files[idx]) # <<>>
    /\ SizeAssertHolds(db_rec, disk, files[idx])
    /\ heap' = Append(heap, from_database(db_rec, files[idx])[1])
    /\ global_entrylist' = Append(global_entrylist, Len(heap) + 1)
    /\ db_count' = db_count + 1
    /\ idx' = idx + 1
    /\ hist' = [hist EXCEPT !.hits = @ + 1]
    /\ UNCHANGED <<disk, drop_log, storeVars, pc, files, cur, all_downloads, sel, ev,
                   for_deletion, report, radios, nenv, nevents>>

\* process_recordings, one file: the assert of from_database fails and the
\* AssertionError ends the process
ProcRecAssertFail ==
    /\ pc = "process_recordings"
    /\ idx <= Len(files)
    /\ from_database(db_rec, files[idx]) # <<>>
    /\ ~SizeAssertHolds(db_rec, disk, files[idx])
    /\ pc' = "aborted"
    /\ UNCHANGED <<disk, drop_log, storeVars, procVars, nenv, nevents, hist>>

\* process_recordings, one file: no row and no meta file, the file is skipped
ProcRecSkip ==
    /\ pc = "process_recordings"
    /\ idx <= Len(files)
    /\ from_database(db_rec, files[idx]) = <<>>
    /\ from_meta_file(disk, files[idx], E2_META_EXTENSION) = <<>>
    /\ idx' = idx + 1
    /\ hist' = [hist EXCEPT !.skipped = @ + 1]
    /\ UNCHANGED <<disk, drop_log, storeVars, pc, heap, global_entrylist, files, db_count,
                   cur, all_downloads, sel, ev, for_deletion, report, radios,
                   nenv, nevents>>

\* process_recordings, one file: no row; the Recording is built from the
\* meta file, saved and appended
ProcRecNew ==
    /\ pc = "process_recordings"
    /\ idx <= Len(files)
    /\ from_database(db_rec, files[idx]) = <<>>
    /\ from_meta_file(disk, files[idx], E2_META_EXTENSION) # <<>>
    /\ LET rec == from_meta_file(disk, files[idx], E2_META_EXTENSION)[1]
       IN  /\ heap' = Append(heap, rec)
           /\ db_rec' = db_save_rec(db_rec, rec)
    /\ global_entrylist' = Append(global_entrylist, Len(heap) + 1)
    /\ idx' = idx + 1
    /\ hist' = [hist EXCEPT !.built = @ + 1]
    /\ UNCHANGED <<disk, drop_log, db_dl, pc, files, db_count, cur, all_downloads,
                   sel, ev, for_deletion, report, radios, nenv, nevents>>

\* the mastered recordings that are not in the list
DeletedMastered(tbl, h, list) ==
    SelectSeq(from_database_mastered_all(tbl),
              LAMBDA rec : ~\E k \in 1..Len(list) : EntryEq(rec, h[list[k]]))

\* the counts a reconciliation prints
Counts(list, fs, count, deleted) ==
    [total |-> Len(list), files |-> Len(fs), cache |-> count,
     new |-> Len(fs) - count, deleted |-> deleted]

\* process_recordings after its loop: the mastered recordings whose file is
\* gone are appended and the counts are printed
ProcRecFinish ==
    /\ pc = "process_recordings"
    /\ idx > Len(files)
    /\ LET deleted == DeletedMastered(db_rec, heap, global_entrylist)
       IN  /\ heap' = heap \o deleted
           /\ global_entrylist' = global_entrylist \o
                                  [i \in 1..Len(deleted) |-> Len(heap) + i]
           /\ report' = [report EXCEPT !.rec =
                  <<Counts(global_entrylist', files, db_count, Len(deleted))>>]
    /\ pc' = "main_downloads"
    /\ UNCHANGED <<disk, drop_log, storeVars, files, idx, db_count, cur, all_downloads,
                   sel, ev, for_deletion, radios, nenv, nevents, hist>>

\* main calls process_downloads: the scan, and from_database_all
ProcDlStart ==
    /\ pc = "main_downloads"
    /\ LET loaded == [i \in 1..Len(db_load_dl_all(db_dl)) |->
                         DownloadOfRow(db_load_dl_all(db_dl)[i])]
       IN  /\ heap' = heap \o loaded
           /\ all_downloads' = [i \in 1..Len(loaded) |-> Len(heap) + i]
    /\ files' = scan_directories(disk, DlPathList, DL_VIDEO_EXTENSION)
    /\ idx' = 1
    /\ db_count' = 0
    /\ pc' = "process_downloads"
    /\ UNCHANGED <<disk, drop_log, storeVars, global_entrylist, cur, sel, ev,
                   for_deletion, report, radios, nenv, nevents, hist>>

\* match of process_downloads: the loaded downloads with the basename
DlMatch(h, all, basename) == SelectSeq(all, LAMBDA r : h[r].file_basename = basename)

\* process_downloads, one file: a loaded download has the basename
ProcDlHit ==
    /\ pc = "process_downloads"
    /\ idx <= Len(files)
    /\ LET match == DlMatch(heap, all_downloads, Basename(files[idx]))
       IN  /\ Len(match) = 1
           /\ heap' = [heap EXCEPT ![match[1]].basepath = files[idx],
                                   ![match[1]].file_extension = DL_VIDEO_EXTENSION]
           /\ global_entrylist' = Append(global_entrylist, match[1])
    /\ db_count' = db_count + 1
    /\ idx' = idx + 1
    /\ UNCHANGED <<disk, drop_log, storeVars, pc, files, cur, all_downloads, sel, ev,
                   for_deletion, report, radios, nenv, nevents, hist>>

\* process_downloads, one file: the assert of from_video_file fails
ProcDlAssertFail ==
    /\ pc = "process_downloads"
    /\ idx <= Len(files)
    /\ Len(DlMatch(heap, all_downloads, Basename(files[idx]))) = 0
    /\ ~MatchAssertHolds(files[idx])
    /\ pc' = "aborted"
    /\ UNCHANGED <<disk, drop_log, storeVars, procVars, nenv, nevents, hist>>

\* process_downloads, one file: the Download is built from the file name,
\* saved and appended
ProcDlNew ==
    /\ pc = "process_downloads"
    /\ idx <= Len(files)
    /\ Len(DlMatch(heap, all_downloads, Basename(files[idx]))) = 0
    /\ MatchAssertHolds(files[idx])
    /\ LET dl == from_video_file(disk, files[idx], DL_VIDEO_EXTENSION)
       IN  /\ heap' = Append(heap, dl)
           /\ db_dl' = db_save_dl(db_dl, dl)
    /\ global_entrylist' = Append(global_entrylist, Len(heap) + 1)
    /\ idx' = idx + 1
    /\ UNCHANGED <<disk, drop_log, db_rec, pc, files, db_count, cur, all_downloads,
                   sel, ev, for_deletion, report, radios, nenv, nevents, hist>>

\* process_downloads after its loop, then main up to the event loop: the
\* counts are printed and the list is sorted by title, ascending
ProcDlFinish ==
    /\ pc = "process_downloads"
    /\ idx > Len(files)
    /\ report' = [report EXCEPT !.dl =
           <<Counts(global_entrylist, files, db_count, 0)>>]
    /\ global_entrylist' = sort_global_entrylist(heap, global_entrylist, "title", "ASC")
    /\ radios' = <<"title", "ASC">>
    /\ pc' = "idle"
    /\ files' = <<>>
    /\ idx' = 1
    /\ db_count' = 0
    /\ all_downloads' = <<>>
    /\ hist' = [hist EXCEPT
           !.prev = << [store |-> <<db_rec, db_dl>>,
                        coll |-> Collection(heap, global_entrylist')] >>,
           !.first = IF hist.prev # <<>> /\ hist.prev[1].store = hist.start_db
                     THEN <<hist.prev[1].coll>> ELSE <<>>]
    /\ UNCHANGED <<disk, drop_log, storeVars, heap, cur, sel, ev, for_deletion,
                   nenv, nevents>>

---------------------------------------------------------------------------
(* The event loop of main *)

FlagKeys == {"d", "D", "g", "G", "m", "M"}
CommentTexts == {"x"}
SortCriteria == {"title"}
SortOrders == {"ASC", "DESC"}

RECURSIVE Ascending(_)
Ascending(S) ==
    IF S = {} THEN <<>>
    ELSE LET m == CHOOSE x \in S : \A y \in S : x <= y
         IN  <<m>> \o Ascending(S \ {m})

\* window["recordingBox"].get(): the entries at the selected positions
Selected(list, positions) ==
    [k \in 1..Cardinality(positions) |-> list[Ascending(positions)[k]]]

\* a check lambda that lets every Recording pass
AnyCheck(r) == TRUE

\* the check lambdas of the events d, D, g, G, m, M
DropCheck(r) == ~r.is_mastered
UndropCheck(r) == r.is_dropped
GoodCheck(r) == ~r.is_good
UngoodCheck(r) == r.is_good
MasteredCheck(r) == ~r.is_dropped
UnmasteredCheck(r) == r.is_mastered

\* a check lambda reads a flag a Download does not have: AttributeError
CheckRaises(key, e) == key \in FlagKeys /\ e.class = "Download"

Check(key, e) ==
    CASE key = "d" -> DropCheck(e)
      [] key = "D" -> UndropCheck(e)
      [] key = "g" -> GoodCheck(e)
      [] key = "G" -> UngoodCheck(e)
      [] key = "m" -> MasteredCheck(e)
      [] key = "M" -> UnmasteredCheck(e)
      [] OTHER     -> TRUE

\* update lambdas that also set the groupkey anew, to the title as it is
UpdateRekeyed(key, comment, e) ==
    [e EXCEPT !.comment = comment,
              !.groupkey = IF e.class = "Recording" THEN e.epg_title ELSE e.dl_title]

\* the update lambdas: setattr(r, name, value)
Update(key, comment, e) ==
    CASE key = "d" -> [e EXCEPT !.is_dropped = TRUE]
      [] key = "D" -> [e EXCEPT !.is_dropped = FALSE]
      [] key = "g" -> [e EXCEPT !.is_good = TRUE]
      [] key = "G" -> [e EXCEPT !.is_good = FALSE]
      [] key = "m" -> [e EXCEPT !.is_mastered = TRUE]
      [] key = "M" -> [e EXCEPT !.is_mastered = FALSE]
      [] OTHER     -> [e EXCEPT !.comment = comment]

\* update_attribute.  A state of the run is [heap, db_rec, db_dl, raised]:
\* raised tells that a check lambda raised AttributeError, which ends the
\* loop (and the process) with the entries before it updated and saved.
UpdateOne(st, r, key, comment) ==
    IF st.raised THEN st
    ELSE IF CheckRaises(key, st.heap[r]) THEN [st EXCEPT !.raised = TRUE]
    ELSE IF ~Check(key, st.heap[r]) THEN st
    ELSE LET e == Update(key, comment, st.heap[r])
         IN  IF e.class = "Recording"
             THEN [st EXCEPT !.heap[r] = e, !.db_rec = db_save_rec(@, e)]
             ELSE [st EXCEPT !.heap[r] = e, !.db_dl = db_save_dl(@, e)]

\* an update_attribute that looks for an entry whose check raises before it
\* updates any
RECURSIVE update_attribute_checked(_, _, _, _)
update_attribute_checked(st, entries, key, comment) ==
    IF \E k \in 1..Len(entries) : CheckRaises(key, st.heap[entries[k]])
    THEN [st EXCEPT !.raised = TRUE]
    ELSE IF entries = <<>> THEN st
    ELSE update_attribute_checked(UpdateOne(st, Head(entries), key, comment),
                                  Tail(entries), key, comment)

RECURSIVE update_attribute(_, _, _, _)
update_attribute(st, entries, key, comment) ==
    IF entries = <<>> THEN st
    ELSE update_attribute(UpdateOne(st, Head(entries), key, comment),
                          Tail(entries), key, comment)

\* the keys d, m whose precondition passes over an entry that
\* update_attribute reaches
Rejected(h, entries, key) ==
    IF key \in {"d", "m"} /\ \E k \in 1..Len(entries) :
           /\ \A j \in 1..k : ~CheckRaises(key, h[entries[j]])
           /\ ~Check(key, h[entries[k]])
    THEN {key} ELSE {}

\* a key d, D, g, G, m or M is pressed with the given positions selected.
\* Nothing selected: recordingBox_selected_rec[0] raises IndexError.
\* A Download selected first: the event is ignored.
\* A Download selected later: the process ends inside update_attribute, the
\* event and the selection it was handling left in ev and sel.
EvKey(key, positions) ==
    /\ pc = "idle"
    /\ nenv + nevents < MaxInputs
    /\ key \in FlagKeys
    /\ positions \subseteq 1..Len(global_entrylist)
    /\ nevents' = nevents + 1
    /\ LET entries == Selected(global_entrylist, positions)
           st == update_attribute([heap |-> heap, db_rec |-> db_rec, db_dl |-> db_dl,
                                   raised |-> FALSE], entries, key, "")
       IN  IF positions = {}
           THEN /\ pc' = "aborted"
                /\ sel' = <<>>
                /\ ev' = NoEvent
                /\ UNCHANGED <<heap, storeVars, hist>>
           ELSE IF heap[entries[1]].class = "Download"
           THEN /\ sel' = <<>>
                /\ ev' = NoEvent
                /\ UNCHANGED <<pc, heap, storeVars, hist>>
           ELSE /\ pc' = IF st.raised THEN "aborted" ELSE "idle"
                /\ sel' = IF st.raised THEN entries ELSE <<>>
                /\ ev' = IF st.raised THEN [key |-> key, comment |-> ""] ELSE NoEvent
                /\ heap' = st.heap
                /\ db_rec' = st.db_rec
                /\ db_dl' = st.db_dl
                /\ hist' = [hist EXCEPT !.excl = @ \cup Rejected(heap, entries, key),
                                        !.prev = <<>>, !.first = <<>>]
    /\ for_deletion' = <<>>
    /\ UNCHANGED <<disk, drop_log, global_entrylist, files, idx, db_count, cur,
                   all_downloads, report, radios, nenv>>

\* c with one entry selected or C with some entries selected, the comment
\* typed and Escape pressed
EvComment(comment, positions) ==
    /\ pc = "idle"
    /\ nenv + nevents < MaxInputs
    /\ comment \in CommentTexts
    /\ positions \subseteq 1..Len(global_entrylist)
    /\ positions # {}
    /\ nevents' = nevents + 1
    /\ LET st == update_attribute([heap |-> heap, db_rec |-> db_rec, db_dl |-> db_dl,
                                   raised |-> FALSE],
                                  Selected(global_entrylist, positions), "c", comment)
       IN  /\ heap' = st.heap
           /\ db_rec' = st.db_rec
           /\ db_dl' = st.db_dl
    /\ hist' = [hist EXCEPT !.prev = <<>>, !.first = <<>>]
    /\ sel' = <<>>
    /\ ev' = NoEvent
    /\ for_deletion' = <<>>
    /\ UNCHANGED <<disk, drop_log, pc, global_entrylist, files, idx, db_count, cur,
                   all_downloads, report, radios, nenv>>

\* a sort radio button is chosen: the list is sorted again
EvSort(order_by, sort_order) ==
    /\ pc = "idle"
    /\ nenv + nevents < MaxInputs
    /\ order_by \in SortCriteria
    /\ sort_order \in SortOrders
    /\ <<order_by, sort_order>> # radios
    /\ nevents' = nevents + 1
    /\ global_entrylist' = sort_global_entrylist(heap, global_entrylist, order_by, sort_order)
    /\ radios' = <<order_by, sort_order>>
    /\ sel' = <<>>
    /\ ev' = NoEvent
    /\ for_deletion' = <<>>
    /\ UNCHANGED <<disk, drop_log, storeVars, pc, heap, files, idx, db_count, cur,
                   all_downloads, report, nenv, hist>>

\* the lines drop_recording prints: the component files that exist
DroppedLines(d, basepath) ==
    SelectSeq([i \in 1..Len(E2_EXTENSIONS) |-> <<basepath[1], basepath[2], E2_EXTENSIONS[i]>>],
              LAMBDA line : Exists(d, basepath, line[3]))

\* the Drop button is pressed: the dropped recordings are collected
EvDrop ==
    /\ pc = "idle"
    /\ nenv + nevents < MaxInputs
    /\ nevents' = nevents + 1
    /\ ev' = [key |-> "dropButton", comment |-> ""]
    /\ sel' = SelectSeq(global_entrylist,
                        LAMBDA r : heap[r].class = "Recording" /\ heap[r].is_dropped)
    /\ for_deletion' = <<>>
    /\ idx' = 1
    /\ pc' = "drop_recording"
    /\ hist' = [hist EXCEPT !.log_len = Len(drop_log), !.prev = <<>>, !.first = <<>>]
    /\ UNCHANGED <<disk, drop_log, storeVars, heap, global_entrylist, files, db_count,
                   cur, all_downloads, report, radios, nenv>>

\* a drop_recording that opens the file with mode "w"
DropLogRewritten ==
    /\ pc = "drop_recording"
    /\ idx <= Len(sel)
    /\ IF heap[sel[idx]].basepath = NoPath
       THEN /\ pc' = "aborted"
            /\ UNCHANGED drop_log
       ELSE /\ pc' = "drop_recording_remove"
            /\ drop_log' = DroppedLines(disk, heap[sel[idx]].basepath)
    /\ UNCHANGED <<disk, storeVars, procVars, nenv, nevents, hist>>

\* drop_recording, the with block: the paths are written and the file is
\* closed; a Recording without basepath fails the assert
DropLog ==
    /\ pc = "drop_recording"
    /\ idx <= Len(sel)
    /\ IF heap[sel[idx]].basepath = NoPath
       THEN /\ pc' = "aborted"
            /\ UNCHANGED drop_log
       ELSE /\ pc' = "drop_recording_remove"
            /\ drop_log' = drop_log \o DroppedLines(disk, heap[sel[idx]].basepath)
    /\ UNCHANGED <<disk, storeVars, procVars, nenv, nevents, hist>>

\* set.add: an element equal to one of the set is not added
SetAdd(h, set, r) ==
    IF \E k \in 1..Len(set) : EntryEq(h[set[k]], h[r]) THEN set ELSE Append(set, r)

\* drop_recording, db_remove_rec; then for_deletion.add(e)
DropRemove ==
    /\ pc = "drop_recording_remove"
    /\ db_rec' = db_remove_rec(db_rec, heap[sel[idx]].file_basename)
    /\ for_deletion' = SetAdd(heap, for_deletion, sel[idx])
    /\ idx' = idx + 1
    /\ pc' = "drop_recording"
    /\ UNCHANGED <<disk, drop_log, db_dl, heap, global_entrylist, files, db_count, cur,
                   all_downloads, sel, ev, report, radios, nenv, nevents, hist>>

\* list.remove(e): the first element equal to e is removed
ListRemove(h, list, r) ==
    LET k == CHOOSE k \in 1..Len(list) :
                 /\ EntryEq(h[list[k]], h[r])
                 /\ \A j \in 1..(k - 1) : ~EntryEq(h[list[j]], h[r])
    IN  SubSeq(list, 1, k - 1) \o SubSeq(list, k + 1, Len(list))

RECURSIVE ListRemoveAll(_, _, _)
ListRemoveAll(h, list, set) ==
    IF set = <<>> THEN list
    ELSE ListRemoveAll(h, ListRemove(h, list, Head(set)), Tail(set))

\* the Drop handler after its loop: the entries of for_deletion are removed
\* from global_entrylist
DropFinish ==
    /\ pc = "drop_recording"
    /\ idx > Len(sel)
    /\ global_entrylist' = ListRemoveAll(heap, global_entrylist, for_deletion)
    /\ pc' = "idle"
    /\ idx' = 1
    /\ UNCHANGED <<disk, drop_log, storeVars, heap, files, db_count, cur,
                   all_downloads, sel, ev, for_deletion, report, radios,
                   nenv, nevents, hist>>

\* the window is closed: sys.exit()
EvClose ==
    /\ pc = "idle"
    /\ pc' = "off"
    /\ heap' = <<>>
    /\ global_entrylist' = <<>>
    /\ files' = <<>>
    /\ idx' = 1
    /\ db_count' = 0
    /\ cur' = 0
    /\ all_downloads' = <<>>
    /\ sel' = <<>>
    /\ ev' = NoEvent
    /\ for_deletion' = <<>>
    /\ report' = NoReport
    /\ radios' = <<"title", "ASC">>
    /\ UNCHANGED <<disk, drop_log, storeVars, nenv, nevents, hist>>

Next ==
    \/ \E p \in RecPaths : EnvDelete(p)
    \/ \E p \in RecPaths : EnvRemoveMeta(p)
    \/ \E p \in RecPaths, n \in 1..MaxSize : EnvResize(p, n)
    \/ \E p \in DlPaths : EnvCreate(p)
    \/ Start
    \/ ProcRecHit
    \/ ProcRecAssertFail
    \/ ProcRecSkip
    \/ ProcRecNew
    \/ ProcRecFinish
    \/ ProcDlStart
    \/ ProcDlHit
    \/ ProcDlAssertFail
    \/ ProcDlNew
    \/ ProcDlFinish
    \/ \E key \in FlagKeys, positions \in SUBSET (1..Len(global_entrylist)) :
           EvKey(key, positions)
    \/ \E comment \in CommentTexts, positions \in SUBSET (1..Len(global_entrylist)) :
           EvComment(comment, positions)
    \/ \E order_by \in SortCriteria, sort_order \in SortOrders : EvSort(order_by, sort_order)
    \/ EvDrop
    \/ DropLog
    \/ DropRemove
    \/ DropFinish
    \/ EvClose

Spec == Init /\ [][Next]_vars

---------------------------------------------------------------------------
(* The store alone: db_save_rec, db_save_dl, db_remove_rec, db_remove_dl   *)
(* called in any order, each db_save in its two commits, and the process    *)
(* killed between the two.                                                  *)

RecordingArgs ==
    {[from_meta_file(InitDisk, <<"A", "r1">>, E2_META_EXTENSION)[1]
         EXCEPT !.comment = c, !.is_good = g, !.file_size = n] :
         c \in {""} \cup CommentTexts, g \in BOOLEAN, n \in {0, 1}}
    \cup {from_meta_file(InitDisk, <<"A", "r2">>, E2_META_EXTENSION)[1]}

DownloadArgs ==
    {[from_video_file(InitDisk, <<"A", "d1">>, DL_VIDEO_EXTENSION) EXCEPT !.comment = c] :
         c \in {""} \cup CommentTexts}
    \cup {from_video_file(InitDisk, <<"A", "r1">>, DL_VIDEO_EXTENSION)}

KeyOf(e) == <<e.class, e.file_basename>>

\* the table of a class
Table(class) == IF class = "Recording" THEN db_rec ELSE db_dl

InitStore ==
    /\ disk = InitDisk
    /\ drop_log = <<>>
    /\ db_rec = <<>>
    /\ db_dl = <<>>
    /\ pc = "db"
    /\ NoProcess
    /\ nenv = 0
    /\ nevents = 0
    /\ hist = InitHist

\* db_save_rec / db_save_dl up to the INSERT: db_remove has committed
StoreSaveBegin(e) ==
    /\ pc = "db"
    /\ nevents < MaxStoreOps
    /\ e \in RecordingArgs \cup DownloadArgs
    /\ nevents' = nevents + 1
    /\ heap' = <<e>>
    /\ cur' = 1
    /\ pc' = "db_save"
    /\ IF e.class = "Recording"
       THEN db_rec' = db_remove_rec(db_rec, e.file_basename) /\ db_dl' = db_dl
       ELSE db_dl' = db_remove_dl(db_dl, e.file_basename) /\ db_rec' = db_rec
    /\ hist' = [hist EXCEPT !.last[KeyOf(e)] = <<>>,
                            !.old_row = SelectSeq(Table(e.class),
                                LAMBDA r : r.file_basename = e.file_basename),
                            !.torn = <<>>,
                            !.removed = <<>>]
    /\ UNCHANGED <<disk, drop_log, global_entrylist, files, idx, db_count, all_downloads,
                   sel, ev, for_deletion, report, radios, nenv>>

\* db_save_rec / db_save_dl from the INSERT on: the INSERT has committed
StoreSaveEnd ==
    /\ pc = "db_save"
    /\ IF heap[cur].class = "Recording"
       THEN db_rec' = InsertInto(db_rec, RecordingRow(heap[cur])) /\ db_dl' = db_dl
       ELSE db_dl' = InsertInto(db_dl, DownloadRow(heap[cur])) /\ db_rec' = db_rec
    /\ pc' = "db"
    /\ heap' = <<>>
    /\ cur' = 0
    /\ hist' = [hist EXCEPT
           !.last[KeyOf(heap[cur])] = <<heap[cur]>>,
           !.old_row = <<>>,
           !.replaced = IF hist.old_row # <<>> /\
                           hist.old_row # <<IF heap[cur].class = "Recording"
                                            THEN RecordingRow(heap[cur])
                                            ELSE DownloadRow(heap[cur])>>
                        THEN @ \cup {KeyOf(heap[cur])} ELSE @]
    /\ UNCHANGED <<disk, drop_log, global_entrylist, files, idx, db_count, all_downloads,
                   sel, ev, for_deletion, report, radios, nenv, nevents>>

\* the process is killed between the two commits of a db_save and started
\* again: the tables are as committed
StoreKill ==
    /\ pc = "db_save"
    /\ pc' = "db"
    /\ heap' = <<>>
    /\ cur' = 0
    /\ hist' = [hist EXCEPT !.old_row = <<>>,
                            !.torn = IF hist.old_row # <<>> THEN <<KeyOf(heap[cur])>> ELSE <<>>]
    /\ UNCHANGED <<disk, drop_log, storeVars, global_entrylist, files, idx, db_count,
                   all_downloads, sel, ev, for_deletion, report, radios, nenv, nevents>>

\* db_remove_rec / db_remove_dl called on its own
StoreRemove(key) ==
    /\ pc = "db"
    /\ nevents < MaxStoreOps
    /\ key \in StoreKeys
    /\ nevents' = nevents + 1
    /\ IF key[1] = "Recording"
       THEN db_rec' = db_remove_rec(db_rec, key[2]) /\ db_dl' = db_dl
       ELSE db_dl' = db_remove_dl(db_dl, key[2]) /\ db_rec' = db_rec
    /\ hist' = [hist EXCEPT !.last[key] = <<>>, !.torn = <<>>,
                            !.removed = IF HasRow(Table(key[1]), key[2])
                                        THEN <<key>> ELSE <<>>]
    /\ UNCHANGED <<disk, drop_log, pc, procVars, nenv>>

NextStore ==
    \/ \E e \in RecordingArgs \cup DownloadArgs : StoreSaveBegin(e)
    \/ StoreSaveEnd
    \/ StoreKill
    \/ \E key \in StoreKeys : StoreRemove(key)

SpecStore == InitStore /\ [][NextStore]_vars

\* what loading the identity of entry e gives, with the attributes no table
\* holds (basepath, file_extension) taken from e
Loaded(e) ==
    IF e.class = "Recording"
    THEN [i \in 1..Len(db_load_rec(db_rec, e.file_basename)) |->
             RecordingOfRow(db_load_rec(db_rec, e.file_basename)[i], e.basepath)]
    ELSE LET rows == SelectSeq(db_load_dl_all(db_dl),
                               LAMBDA r : r.file_basename = e.file_basename)
         IN  [i \in 1..Len(rows) |->
                 [DownloadOfRow(rows[i]) EXCEPT !.basepath = e.basepath,
                                                !.file_extension = e.file_extension]]

\* C5: upsert is a full replace.  After any sequence of db_save and
\* db_remove calls each table holds at most one row per identity, and an
\* identity whose last call was a db_save loads with every attribute as
\* that db_save was given it.
C5_FullReplace ==
    pc = "db" =>
        \A key \in StoreKeys :
            /\ RowCount(Table(key[1]), key[2]) <= 1
            /\ hist.last[key] # <<>> => Loaded(hist.last[key][1]) = hist.last[key]

\* a db_save has returned that replaced a row holding other values
C5_Witness ==
    /\ pc = "db"
    /\ \E key \in hist.replaced : hist.last[key] # <<>>

\* C6: the store is crash-consistent under upsert.  While a db_save of an
\* identity that had a row is between its commits, and after the process was
\* killed there, the table holds a row of the identity.
C6_CrashConsistent ==
    /\ (pc = "db_save" /\ hist.old_row # <<>>) =>
           HasRow(Table(heap[cur].class), heap[cur].file_basename)
    /\ hist.torn # <<>> => HasRow(Table(hist.torn[1][1]), hist.torn[1][2])

---------------------------------------------------------------------------
(* The sort alone: the event loop of a session whose collection holds up   *)
(* to MaxSortLen of the entries the scans can meet, in the order            *)
(* reconciliation appended them and sorted by title, every criterion of     *)
(* the radio group chosen in any sequence.                                  *)

MaxSortLen == 3

\* the keys of the dict lambdas
lambdas == {"title", "channel", "date", "time", "attr_good", "attr_mastered",
            "attr_dropped", "duration", "resolution", "size", "max_size", "sum_size",
            "avg_size", "count", "any_drop", "any_good", "any_mastered"}

AttributeCriteria == {"attr_good", "attr_mastered", "attr_dropped"}
AggregateCriteria == {"max_size", "sum_size", "avg_size", "count",
                      "any_drop", "any_good", "any_mastered"}

\* the paths of the session, in the order of the scans
SortPathList == RecPathList \o << <<"A", "d1">> >>

\* the flags a Recording can have been given by the keys g, d, m
FlagChoices == {[is_good |-> FALSE, is_dropped |-> FALSE, is_mastered |-> FALSE],
                [is_good |-> TRUE,  is_dropped |-> FALSE, is_mastered |-> FALSE],
                [is_good |-> FALSE, is_dropped |-> TRUE,  is_mastered |-> FALSE],
                [is_good |-> FALSE, is_dropped |-> FALSE, is_mastered |-> TRUE]}

\* every file with all its components; the video files of one basename have
\* one size (from_database asserts it)
SortDisk(size) ==
    [p \in RecPaths \cup DlPaths |->
        [exts |-> IF p \in RecPaths THEN Range(E2_EXTENSIONS) ELSE {DL_VIDEO_EXTENSION},
         size |-> IF p \in RecPaths THEN size[Basename(p)] ELSE InitDisk[p].size]]

\* the entry reconciliation appends for a path: a Recording with the flags
\* of the row of its basename, a Download as from_video_file builds it
SortEntry(d, p, flags) ==
    IF p \notin RecPaths THEN from_video_file(d, p, DL_VIDEO_EXTENSION)
    ELSE [from_meta_file(d, p, E2_META_EXTENSION)[1] EXCEPT
             !.is_good = flags[Basename(p)].is_good,
             !.is_dropped = flags[Basename(p)].is_dropped,
             !.is_mastered = flags[Basename(p)].is_mastered]

\* the tables after db_save_rec / db_save_dl of the entries, in order
RECURSIVE SavedAll(_, _)
SavedAll(tbls, entries) ==
    IF entries = <<>> THEN tbls
    ELSE SavedAll(IF Head(entries).class = "Recording"
                  THEN <<db_save_rec(tbls[1], Head(entries)), tbls[2]>>
                  ELSE <<tbls[1], db_save_dl(tbls[2], Head(entries))>>,
                  Tail(entries))

\* the order in which the entries were appended
InsertionOrder(h) == [k \in 1..Len(h) |-> k]

\* the event loop is reached with two to MaxSortLen entries; the Recordings
\* of the basename r1 carry any of the flag choices, the Recording r2 is
\* unflagged or good
InitSort ==
    \E present \in SUBSET Range(SortPathList),
       size \in [{"r1", "r2"} -> 1..MaxSize],
       flags \in {f \in [{"r1", "r2"} -> FlagChoices] :
                     ~f["r2"].is_dropped /\ ~f["r2"].is_mastered} :
        LET paths   == SelectSeq(SortPathList, LAMBDA p : p \in present)
            entries == [k \in 1..Len(paths) |-> SortEntry(SortDisk(size), paths[k], flags)]
        IN  /\ Len(paths) \in 2..MaxSortLen
            /\ disk = SortDisk(size)
            /\ drop_log = <<>>
            /\ db_rec = SavedAll(<< <<>>, <<>> >>, entries)[1]
            /\ db_dl = SavedAll(<< <<>>, <<>> >>, entries)[2]
            /\ pc = "idle"
            /\ heap = entries
            /\ global_entrylist =
                   sort_global_entrylist(entries, InsertionOrder(entries), "title", "ASC")
            /\ files = <<>>
            /\ idx = 1
            /\ db_count = 0
            /\ cur = 0
            /\ all_downloads = <<>>
            /\ sel = <<>>
            /\ ev = NoEvent
            /\ for_deletion = <<>>
            /\ report = NoReport
            /\ radios = <<"title", "ASC">>
            /\ nenv = 0
            /\ nevents = 0
            /\ hist = InitHist

\* names sort_global_entrylist can be called with that are no keys of lambdas
UnknownCriteria == {"name"}

\* lambdas[order_by] raises KeyError
KeyError(order_by) == order_by \notin lambdas

\* a sort that takes the lambda of "title" for a name lambdas does not have
\* (lambdas.get(order_by, lambdas["title"]))
EvSortDefault(order_by, sort_order) ==
    /\ pc = "idle"
    /\ order_by \in lambdas \cup UnknownCriteria
    /\ sort_order \in SortOrders
    /\ <<order_by, sort_order>> # radios
    /\ global_entrylist' =
           sort_global_entrylist(heap, global_entrylist,
                                 IF KeyError(order_by) THEN "title" ELSE order_by, sort_order)
    /\ radios' = <<order_by, sort_order>>
    /\ UNCHANGED <<disk, drop_log, storeVars, pc, heap, files, idx, db_count, cur,
                   all_downloads, sel, ev, for_deletion, report, nenv, nevents, hist>>

\* sort_global_entrylist is called with a criterion and a direction other
\* than the last ones: any criterion of the radio group, or a name that is no
\* key of lambdas, for which the lookup raises KeyError after the aggregates
\* have been computed and before list.sort; the error ends the process
EvSortAny(order_by, sort_order) ==
    /\ pc = "idle"
    /\ order_by \in lambdas \cup UnknownCriteria
    /\ sort_order \in SortOrders
    /\ <<order_by, sort_order>> # radios
    /\ IF KeyError(order_by)
       THEN /\ pc' = "aborted"
            /\ UNCHANGED <<global_entrylist, radios>>
       ELSE /\ global_entrylist' =
                   sort_global_entrylist(heap, global_entrylist, order_by, sort_order)
            /\ radios' = <<order_by, sort_order>>
            /\ pc' = pc
    /\ UNCHANGED <<disk, drop_log, storeVars, heap, files, idx, db_count, cur,
                   all_downloads, sel, ev, for_deletion, report, nenv, nevents, hist>>

NextSort ==
    \E order_by \in lambdas \cup UnknownCriteria, sort_order \in SortOrders :
        EvSortAny(order_by, sort_order)

SpecSort == InitSort /\ [][NextSort]_vars

---------------------------------------------------------------------------
(* Properties of reconciliation *)

\* the basenames of the scan the running loop goes through
ScannedNames == {Basename(files[k]) : k \in 1..Len(files)}

\* the rows of mastered recordings whose file the scan did not return
MasteredUnscanned ==
    {i \in 1..Len(db_rec) : db_rec[i].is_mastered /\ db_rec[i].file_basename \notin ScannedNames}

\* C1: mastered survival.  When process_recordings has returned, every
\* stored Recording with is_mastered whose file is not in the scan result is
\* in global_entrylist with basepath None and file_size 0.
C1_MasteredSurvival ==
    pc = "main_downloads" =>
        \A i \in MasteredUnscanned :
            \E k \in 1..Len(global_entrylist) :
                /\ heap[global_entrylist[k]].class = "Recording"
                /\ heap[global_entrylist[k]].file_basename = db_rec[i].file_basename
                /\ heap[global_entrylist[k]].basepath = NoPath
                /\ heap[global_entrylist[k]].file_size = 0

\* process_recordings has returned and a mastered recording had lost its file
C1_Witness == pc = "main_downloads" /\ MasteredUnscanned # {}

\* the state update_attribute starts from
UpdateState == [heap |-> heap, db_rec |-> db_rec, db_dl |-> db_dl, raised |-> FALSE]

\* C2: mutual exclusion at mutation time.  For every Recording of the
\* process, the drop mark applied to it while it is mastered, and the
\* mastered mark applied to it while it is dropped, leave the objects in
\* memory and both tables as they are.
C2_MutualExclusion ==
    \A r \in 1..Len(heap) :
        heap[r].class = "Recording" =>
            /\ heap[r].is_mastered => UpdateOne(UpdateState, r, "d", "") = UpdateState
            /\ heap[r].is_dropped => UpdateOne(UpdateState, r, "m", "") = UpdateState

\* the key d has been pressed over a mastered Recording, which is still
\* mastered and not dropped
C2_Witness ==
    /\ pc = "idle"
    /\ "d" \in hist.excl
    /\ \E r \in 1..Len(heap) :
           heap[r].class = "Recording" /\ heap[r].is_mastered /\ ~heap[r].is_dropped

\* the run of the Drop handler has returned
DropCommitted == pc = "idle" /\ ev.key = "dropButton"

RECURSIVE AllDroppedLines(_, _, _)
AllDroppedLines(d, h, targets) ==
    IF targets = <<>> THEN <<>>
    ELSE DroppedLines(d, h[Head(targets)].basepath) \o AllDroppedLines(d, h, Tail(targets))

\* C3: after drop-commit no entry that was flagged dropped when the button
\* was pressed is in the store or in global_entrylist, and the drop log has
\* gained one line for each existing component file of each of them.
C3_DropCommitRemoves ==
    DropCommitted =>
        /\ \A k \in 1..Len(sel) :
               /\ ~HasRow(db_rec, heap[sel[k]].file_basename)
               /\ \A j \in 1..Len(global_entrylist) : global_entrylist[j] # sel[k]
        /\ drop_log = SubSeq(drop_log, 1, hist.log_len) \o AllDroppedLines(disk, heap, sel)

\* the Drop handler is running or has just returned
InDropCommit == pc \in {"drop_recording", "drop_recording_remove"} \/ DropCommitted

\* the lines the log has gained since the button was pressed
LoggedSince == {drop_log[i] : i \in (hist.log_len + 1)..Len(drop_log)}

\* C4: ordering inside drop-commit.  In no state of a drop-commit has a
\* dropped entry left the store while its paths are not in the log, or has
\* it left global_entrylist while its row is in the store.
C4_DropOrdering ==
    InDropCommit =>
        \A k \in 1..Len(sel) :
            /\ ~HasRow(db_rec, heap[sel[k]].file_basename) =>
                   Range(DroppedLines(disk, heap[sel[k]].basepath)) \subseteq LoggedSince
            /\ (\A j \in 1..Len(global_entrylist) : global_entrylist[j] # sel[k]) =>
                   ~HasRow(db_rec, heap[sel[k]].file_basename)

\* C7: idempotent reconciliation.  A reconciliation that follows another one
\* over the same files, the store changed only by the first, ends with the
\* same collection and reports no new entry.
C7_Idempotent ==
    (pc = "idle" /\ hist.first # <<>> /\ hist.prev # <<>>) =>
        /\ hist.prev[1].coll = hist.first[1]
        /\ report.rec[1].new = 0
        /\ report.dl[1].new = 0

\* C8: reconciliation counts.  When process_recordings has returned, the
\* printed cache count is the number of files loaded from the store and the
\* printed new count is the number of files for which a Recording was built
\* from the meta file, saved and appended.
C8_Counts ==
    pc = "main_downloads" =>
        /\ report.rec[1].cache = hist.hits
        /\ report.rec[1].new = hist.built

\* process_recordings is at a file that has a row of another size
SizeMismatch ==
    /\ pc = "process_recordings"
    /\ idx <= Len(files)
    /\ \E i \in 1..Len(db_rec) :
           /\ db_rec[i].file_basename = Basename(files[idx])
           /\ db_rec[i].file_size # StatSize(disk, files[idx])

\* C9: cache inconsistency is fatal and not repaired.  The step of
\* process_recordings at a file whose row has another file_size than the
\* file ends the process; nothing is appended and the tables stay as they are.
C9_SizeMismatchFatal ==
    [][SizeMismatch =>
          /\ pc' = "aborted"
          /\ global_entrylist' = global_entrylist
          /\ heap' = heap
          /\ db_rec' = db_rec
          /\ db_dl' = db_dl]_vars

\* the process has ended at a scanned recording whose row has another size
C9_Witness ==
    /\ pc = "aborted"
    /\ idx <= Len(files)
    /\ files[idx] \in RecPaths
    /\ \E i \in 1..Len(db_rec) :
           /\ db_rec[i].file_basename = Basename(files[idx])
           /\ db_rec[i].file_size # StatSize(disk, files[idx])
    /\ \A j \in 1..Len(global_entrylist) :
           heap[global_entrylist[j]].basepath # files[idx]

\* process_recordings is at a file with neither a row nor a meta file
MissingMetadata ==
    /\ pc = "process_recordings"
    /\ idx <= Len(files)
    /\ ~HasRow(db_rec, Basename(files[idx]))
    /\ ~Exists(disk, files[idx], E2_META_EXTENSION)

\* C10: missing metadata is skip-and-continue.  The step of
\* process_recordings at a file with no row and no meta file adds nothing to
\* global_entrylist or to the store and goes on with the next file, every
\* other variable of the loop as it was.
C10_SkipAndContinue ==
    [][MissingMetadata =>
          /\ pc' = "process_recordings"
          /\ idx' = idx + 1
          /\ files' = files
          /\ global_entrylist' = global_entrylist
          /\ heap' = heap
          /\ db_rec' = db_rec
          /\ db_dl' = db_dl
          /\ db_count' = db_count]_vars

\* a reconciliation has skipped a file, has gone on to a later file of the
\* scan and has reached the event loop
C10_Witness ==
    /\ pc = "idle"
    /\ hist.skipped > 0
    /\ hist.hits + hist.built > 0
    /\ \E k \in 1..Len(hist.rec_scan) :
           /\ \A j \in 1..Len(global_entrylist) :
                  heap[global_entrylist[j]].basepath # hist.rec_scan[k]
           /\ \E j \in 1..Len(global_entrylist), m \in (k + 1)..Len(hist.rec_scan) :
                  heap[global_entrylist[j]].basepath = hist.rec_scan[m]

---------------------------------------------------------------------------
(* Properties of the event loop *)

\* the identities (class, file_basename) that have a row in the store
StoreIds(rec, dl) ==
    {<<"Recording", rec[i].file_basename>> : i \in 1..Len(rec)} \cup
    {<<"Download", dl[i].file_basename>> : i \in 1..Len(dl)}

\* the identities of the entries of the collection
ListIds(h, list) == {KeyOf(h[list[k]]) : k \in 1..Len(list)}

\* the identities of the Recordings the Drop handler goes through, each
\* flagged dropped
DropTargets == {KeyOf(heap[sel[k]]) : k \in {j \in 1..Len(sel) : heap[sel[j]].is_dropped}}

\* C11: entries are destroyed only by drop-commit.  A step takes an identity
\* out of the store only if it is the db_remove_rec of drop_recording, and
\* the identity is the one of the Recording it is called with, which is
\* flagged dropped; a step inside a session takes an identity out of
\* global_entrylist only if it is the removal that ends the Drop handler,
\* and the identity is the one of a Recording of its loop, flagged dropped.
C11_DestroyedOnlyByDrop ==
    [][/\ StoreIds(db_rec, db_dl) \ StoreIds(db_rec', db_dl') # {} =>
              /\ pc = "drop_recording_remove"
              /\ heap[sel[idx]].is_dropped
              /\ StoreIds(db_rec, db_dl) \ StoreIds(db_rec', db_dl') = {KeyOf(heap[sel[idx]])}
       /\ (pc \notin {"off", "aborted"} /\ pc' # "off"
              /\ ListIds(heap, global_entrylist) \ ListIds(heap', global_entrylist') # {}) =>
              /\ pc = "drop_recording"
              /\ idx > Len(sel)
              /\ ListIds(heap, global_entrylist) \ ListIds(heap', global_entrylist')
                     \subseteq DropTargets]_vars

\* a drop-commit has returned and the identity of a Recording it went
\* through is neither in the store nor in global_entrylist
C11_Witness ==
    /\ DropCommitted
    /\ \E id \in DropTargets :
           /\ id \notin StoreIds(db_rec, db_dl)
           /\ id \notin ListIds(heap, global_entrylist)

\* what a flag key leaves behind for the selected Recording r: the update in
\* memory and the flag at its new value in the row if the precondition held,
\* the Recording as it was otherwise
AppliedIf(key, r) ==
    IF Check(key, heap[r])
    THEN /\ heap'[r] = Update(key, "", heap[r])
         /\ \E i \in 1..Len(db_rec') :
                /\ db_rec'[i].file_basename = heap[r].file_basename
                /\ Update(key, "", db_rec'[i]) = db_rec'[i]
    ELSE heap'[r] = heap[r]

\* C12: applyIf is per entry.  A flag key pressed over any selection that is
\* not empty, Downloads among it or not, raises no error and leaves every
\* selected Recording updated in memory and in its row if it satisfied the
\* precondition, and unchanged if it did not.
C12_ApplyIfPerEntry ==
    [][\A key \in FlagKeys, positions \in (SUBSET (1..Len(global_entrylist))) \ {{}} :
           EvKey(key, positions) =>
               /\ pc' = "idle"
               /\ \A k \in positions :
                      heap[global_entrylist[k]].class = "Recording" =>
                          AppliedIf(key, global_entrylist[k])]_vars

\* the step in which update_attribute, called for a flag key, fails: the
\* process ends with the key in ev and the selection in sel
BatchFailed == pc = "idle" /\ pc' = "aborted" /\ ev'.key \in FlagKeys

\* the place in the selection of the entry whose check raised: the first
\* Download
FailedAt(h, entries) ==
    CHOOSE k \in 1..Len(entries) :
        /\ h[entries[k]].class = "Download"
        /\ \A j \in 1..(k - 1) : h[entries[j]].class = "Recording"

\* the rows that are not the row of one of the given entries are as they were
OtherRowsKept(entries) ==
    /\ db_dl' = db_dl
    /\ \A i \in 1..Len(db_rec) :
           (\A j \in 1..Len(entries) : heap[entries[j]].file_basename # db_rec[i].file_basename)
               => \E i2 \in 1..Len(db_rec') : db_rec'[i2] = db_rec[i]

\* C13: batch mutation is not atomic.  In the step in which update_attribute
\* fails at the k-th entry of the selection, every earlier entry that
\* satisfied the precondition gets the update in memory and in its row, and
\* the k-th entry and the entries after it stay as they were, in memory and
\* in the store.
C13_NotAtomic ==
    [][BatchFailed =>
          LET k == FailedAt(heap, sel')
          IN  /\ \A j \in 1..(k - 1) : AppliedIf(ev'.key, sel'[j])
              /\ \A j \in k..Len(sel') : heap'[sel'[j]] = heap[sel'[j]]
              /\ OtherRowsKept(SubSeq(sel', 1, k - 1))]_vars

\* the process has ended inside update_attribute at a Download of the
\* selection, with a Recording before it that satisfied the precondition of
\* d or m (which the update leaves true) updated in memory and in its row,
\* and an entry after the Download in the selection
C13_Witness ==
    /\ pc = "aborted"
    /\ ev.key \in {"d", "m"}
    /\ \E k \in 2..(Len(sel) - 1) :
           /\ heap[sel[k]].class = "Download"
           /\ Check(ev.key, heap[sel[1]])
           /\ Update(ev.key, "", heap[sel[1]]) = heap[sel[1]]
           /\ \E i \in 1..Len(db_rec) :
                  /\ db_rec[i].file_basename = heap[sel[1]].file_basename
                  /\ Update(ev.key, "", db_rec[i]) = db_rec[i]

---------------------------------------------------------------------------
(* Properties of the sort.  In every state of the event loop the list is   *)
(* the result of the last sort, whose criterion and direction are radios.  *)

\* the entry at position k of the list
EntryAt(k) == heap[global_entrylist[k]]

\* the key the last sort gave the entry at position k
KeyAt(k) ==
    SortKey(radios[1], EntryAt(k),
            groupkey_aggregates(heap, global_entrylist, EntryAt(k).groupkey))

\* its primary value, groupkey and timestamp (a Download: the empty one)
PrimaryAt(k) == KeyAt(k)[1]
GroupkeyAt(k) == StrCodes(EntryAt(k).groupkey)
TimestampAt(k) == IF EntryAt(k).class = "Recording" THEN EntryAt(k).timestamp ELSE <<>>

\* the pairs of positions i before j whose entries have the same primary value
EqualPrimary ==
    {p \in (1..Len(global_entrylist)) \X (1..Len(global_entrylist)) :
        p[1] < p[2] /\ PrimaryAt(p[1]) = PrimaryAt(p[2])}

\* C14: descending direction reverses only the primary comparison.  After a
\* descending sort by any criterion, entries with the same primary value
\* stand in ascending order of groupkey.
C14_DescKeepsTieBreak ==
    radios[2] = "DESC" =>
        \A p \in EqualPrimary : ~CompLess(GroupkeyAt(p[2]), GroupkeyAt(p[1]))

\* C15: fixed tie-break.  After a sort by any criterion in any direction,
\* entries with the same primary value stand in ascending order of groupkey,
\* and those of them with the same groupkey in ascending order of timestamp,
\* a Download first.
C15_FixedTieBreak ==
    \A p \in EqualPrimary :
        /\ ~CompLess(GroupkeyAt(p[2]), GroupkeyAt(p[1]))
        /\ GroupkeyAt(p[1]) = GroupkeyAt(p[2]) =>
               ~CompLess(TimestampAt(p[2]), TimestampAt(p[1]))

\* C16: the sort order is deterministic.  Whatever sorts came before, the
\* list after a sort is the one the same sort gives from the order in which
\* the entries were appended.
C16_Deterministic ==
    global_entrylist =
        sort_global_entrylist(heap, InsertionOrder(heap), radios[1], radios[2])

\* C17: sorting is stable under re-application.  For every criterion and
\* direction, the sort applied again to its own result leaves the list as
\* it is.
C17_Reapplication ==
    sort_global_entrylist(heap, global_entrylist, radios[1], radios[2]) = global_entrylist

\* the last sort was not the first one by title, it moved an entry, and two
\* entries of the list have the same key
C17_Witness ==
    /\ radios # <<"title", "ASC">>
    /\ global_entrylist # InsertionOrder(heap)
    /\ \E i, j \in 1..Len(global_entrylist) : i < j /\ KeyAt(i) = KeyAt(j)

\* C18: aggregate clustering.  After a sort by an aggregate criterion in
\* either direction no entry of another groupkey stands between two entries
\* of one groupkey.
C18_Clustering ==
    radios[1] \in AggregateCriteria =>
        \A i, k, j \in 1..Len(global_entrylist) :
            (i < k /\ k < j /\ EntryAt(i).groupkey = EntryAt(j).groupkey)
                => EntryAt(k).groupkey = EntryAt(i).groupkey

\* the list is sorted by an aggregate criterion that gives every entry the
\* same primary value, and holds two entries of one groupkey and an entry of
\* another
C18_Witness ==
    /\ radios[1] \in AggregateCriteria
    /\ \A i \in 1..Len(global_entrylist) : PrimaryAt(i) = PrimaryAt(1)
    /\ \E i, j, k \in 1..Len(global_entrylist) :
           /\ i # j
           /\ EntryAt(i).groupkey = EntryAt(j).groupkey
           /\ EntryAt(k).groupkey # EntryAt(i).groupkey

\* the objects of the session with a Recording that is good, not dropped and
\* not mastered in the place of every Download
AsRecordings(h) ==
    [r \in 1..Len(h) |->
        IF h[r].class = "Recording" THEN h[r]
        ELSE [class |-> "Recording", groupkey |-> h[r].groupkey,
              file_size |-> h[r].file_size,
              is_good |-> TRUE, is_dropped |-> FALSE, is_mastered |-> FALSE]]

\* C19: Download flag defaults in sorting.  A sort by attr_good, attr_dropped
\* or attr_mastered gives the order it would give if every Download were a
\* Recording with is_good = true, is_dropped = false and is_mastered = false.
C19_DownloadDefaults ==
    [][\A order_by \in AttributeCriteria, sort_order \in SortOrders :
           EvSortAny(order_by, sort_order) =>
               global_entrylist' = sort_global_entrylist(AsRecordings(heap), global_entrylist,
                                                         order_by, sort_order)]_vars

\* the positions of the list whose entry has the groupkey
Members(groupkey) ==
    {k \in 1..Len(global_entrylist) : EntryAt(k).groupkey = groupkey}

RECURSIVE SizeOver(_)
SizeOver(positions) ==
    IF positions = {} THEN 0
    ELSE LET k == CHOOSE k \in positions : TRUE
         IN  EntryAt(k).file_size + SizeOver(positions \ {k})

\* the value of a flag of an entry, a Download being good, not dropped and
\* not mastered
IsGood(e) == IF e.class = "Recording" THEN e.is_good ELSE TRUE
IsDropped(e) == IF e.class = "Recording" THEN e.is_dropped ELSE FALSE
IsMastered(e) == IF e.class = "Recording" THEN e.is_mastered ELSE FALSE

\* C20: group aggregates are computed over all members.  For every groupkey
\* of the list, count, sum_size and max_size are the number, the sum of the
\* sizes and the largest size of all entries with the groupkey, and any_good,
\* any_drop, any_mastered are the OR of the flag over all of them, a Download
\* counting as good, not dropped and not mastered.
C20_Aggregates ==
    \A n \in 1..Len(global_entrylist) :
        LET members == Members(EntryAt(n).groupkey)
            meta    == groupkey_aggregates(heap, global_entrylist, EntryAt(n).groupkey)
        IN  /\ meta.count = Cardinality(members)
            /\ meta.sum_size = SizeOver(members)
            /\ \A k \in members : EntryAt(k).file_size <= meta.max_size
            /\ \E k \in members : EntryAt(k).file_size = meta.max_size
            /\ meta.any_good = \E k \in members : IsGood(EntryAt(k))
            /\ meta.any_drop = \E k \in members : IsDropped(EntryAt(k))
            /\ meta.any_mastered = \E k \in members : IsMastered(EntryAt(k))

\* C21: an unrecognized sort criterion is rejected.  A call of the sort with
\* a name that is no key of lambdas ends in an error and leaves the order of
\* the list, every object and both tables as they were.
C21_UnknownRejected ==
    [][\A order_by \in UnknownCriteria, sort_order \in SortOrders :
           EvSortAny(order_by, sort_order) =>
               /\ pc' = "aborted"
               /\ global_entrylist' = global_entrylist
               /\ heap' = heap
               /\ db_rec' = db_rec
               /\ db_dl' = db_dl]_vars

\* the process has ended in the sort, after an earlier sort had given the
\* list another order than the one of insertion
C21_Witness ==
    /\ pc = "aborted"
    /\ radios # <<"title", "ASC">>
    /\ global_entrylist # InsertionOrder(heap)

\* the two lists hold the same references, each as often
IsPermutation(a, b) ==
    /\ Len(a) = Len(b)
    /\ \A r \in Range(a) \cup Range(b) :
           Cardinality({k \in 1..Len(a) : a[k] = r}) = Cardinality({k \in 1..Len(b) : b[k] = r})

\* C22: sorting is transient.  A call of sort_global_entrylist, with any
\* criterion and direction, leaves both tables and every object as they
\* were, and the list after it is a permutation of the list before it.
C22_SortTransient ==
    [][/\ db_rec' = db_rec
       /\ db_dl' = db_dl
       /\ heap' = heap
       /\ IsPermutation(global_entrylist', global_entrylist)]_vars

\* a descending sort has reordered a list of MaxSortLen entries that have
\* rows in the store
C22_Witness ==
    /\ pc = "idle"
    /\ radios[2] = "DESC"
    /\ Len(global_entrylist) = MaxSortLen
    /\ global_entrylist # InsertionOrder(heap)
    /\ db_rec # <<>>

---------------------------------------------------------------------------
(* Properties of removal from the store                                    *)

\* the step is a call of db_remove_rec / db_remove_dl for the identity key,
\* on its own or as the first half of a db_save
RemoveCall(key) ==
    \/ StoreRemove(key)
    \/ \E e \in RecordingArgs \cup DownloadArgs : KeyOf(e) = key /\ StoreSaveBegin(e)

\* the rows of a table that are not of the basename, in the table's order
RowsBut(tbl, basename) == SelectSeq(tbl, LAMBDA r : r.file_basename # basename)

\* C23: remove deletes by identity only.  A call of db_remove_rec /
\* db_remove_dl leaves no row of the given identity in its table, deletes at
\* most one row, leaves every other row of that table as it was and leaves
\* the table of the other variant as it was, also when that table holds a
\* row of the same file_basename.
C23_RemoveByIdentity ==
    [][\A key \in StoreKeys :
           RemoveCall(key) =>
               /\ IF key[1] = "Recording"
                  THEN /\ ~HasRow(db_rec', key[2])
                       /\ Len(db_rec) - Len(db_rec') \in {0, 1}
                       /\ RowsBut(db_rec', key[2]) = RowsBut(db_rec, key[2])
                       /\ db_dl' = db_dl
                  ELSE /\ ~HasRow(db_dl', key[2])
                       /\ Len(db_dl) - Len(db_dl') \in {0, 1}
                       /\ RowsBut(db_dl', key[2]) = RowsBut(db_dl, key[2])
                       /\ db_rec' = db_rec
               /\ Len(Table(key[1])) - Len(IF key[1] = "Recording" THEN db_rec' ELSE db_dl')
                      = RowCount(Table(key[1]), key[2])]_vars

\* the last call has deleted the row of a Download whose file_basename a
\* stored Recording shares
C23_Witness ==
    /\ pc = "db"
    /\ hist.removed = << <<"Download", "r1">> >>
    /\ HasRow(db_rec, "r1")
---------------------------------------------------------------------------
(* Properties of the collection after reconciliation                       *)

\* the positions of global_entrylist that hold a Recording of the basename
RecordingsOf(basename) ==
    {k \in 1..Len(global_entrylist) :
         /\ heap[global_entrylist[k]].class = "Recording"
         /\ heap[global_entrylist[k]].file_basename = basename}

\* the rows of mastered recordings whose file the scan returned
MasteredScanned ==
    {i \in 1..Len(db_rec) : db_rec[i].is_mastered /\ db_rec[i].file_basename \in ScannedNames}

\* the positions of global_entrylist the mastered-append step has filled:
\* the loop appends entries with the basepath of a scanned file only
MasteredAppended ==
    {k \in 1..Len(global_entrylist) : heap[global_entrylist[k]].basepath = NoPath}

\* C24: a mastered Recording whose file is present.  When
\* process_recordings has returned, every stored Recording with is_mastered
\* whose file is in the scan result is in global_entrylist exactly once, with
\* the basepath of a scanned file and the size of that file, and every entry
\* the mastered-append step added is a mastered Recording whose identity no
\* other entry of global_entrylist has.
C24_MasteredPresentOnce ==
    pc = "main_downloads" =>
        /\ \A i \in MasteredScanned :
               /\ Cardinality(RecordingsOf(db_rec[i].file_basename)) = 1
               /\ \A k \in RecordingsOf(db_rec[i].file_basename) :
                      LET e == heap[global_entrylist[k]]
                      IN  /\ e.basepath \in Range(files)
                          /\ Basename(e.basepath) = e.file_basename
                          /\ e.file_size = StatSize(disk, e.basepath)
                          /\ e.file_size > 0
        /\ \A k \in MasteredAppended :
               /\ heap[global_entrylist[k]].class = "Recording"
               /\ heap[global_entrylist[k]].is_mastered
               /\ RecordingsOf(heap[global_entrylist[k]].file_basename) = {k}
\* C25: identity uniqueness in the session view.  When reconciliation has
\* returned, no two positions of global_entrylist hold entries of the same
\* variant with the same file_basename.
C25_IdentityUnique ==
    pc = "idle" =>
        \A j, k \in 1..Len(global_entrylist) :
            EntryEq(heap[global_entrylist[j]], heap[global_entrylist[k]]) => j = k
---------------------------------------------------------------------------
(* Properties of the groupkey                                              *)

\* the title of an entry or of a row: epg_title of a Recording, dl_title of
\* a Download
TitleOf(e) == IF "epg_title" \in DOMAIN e THEN e.epg_title ELSE e.dl_title

\* the groupkeys the rows of a basename have in a table
StoredGroupkeys(tbl, basename) ==
    {tbl[i].groupkey : i \in {n \in 1..Len(tbl) : tbl[n].file_basename = basename}}

\* every object in memory and every row has the groupkey of its title
GroupkeyOfTitle ==
    /\ \A r \in 1..Len(heap) : heap[r].groupkey = make_groupkey(TitleOf(heap[r]))
    /\ \A i \in 1..Len(db_rec) : db_rec[i].groupkey = make_groupkey(TitleOf(db_rec[i]))
    /\ \A i \in 1..Len(db_dl) : db_dl[i].groupkey = make_groupkey(TitleOf(db_dl[i]))

\* no step changes the groupkey of an object in memory, or the groupkey
\* stored for an identity that has a row before and after the step
GroupkeyKept ==
    /\ \A r \in 1..Len(heap) : r <= Len(heap') => heap'[r].groupkey = heap[r].groupkey
    /\ \A key \in StoreKeys :
           LET before == StoredGroupkeys(Table(key[1]), key[2])
               after  == StoredGroupkeys(IF key[1] = "Recording" THEN db_rec' ELSE db_dl', key[2])
           IN  (before # {} /\ after # {}) => after = before

\* C26: groupkey stability.  In every reachable state the groupkey of each
\* entry and of each row is make_groupkey of its title (epg_title of a
\* Recording, dl_title of a Download), and no step of reconciliation, of a
\* sort or of a flag or comment mutation changes the groupkey of an entry
\* or the groupkey stored for an identity.
C26_GroupkeyStable == []GroupkeyOfTitle /\ [][GroupkeyKept]_vars

\* a Recording whose groupkey differs from its title was loaded from the
\* store in this run and has since been given a flag or a comment, which
\* its row holds
C26_Witness ==
    /\ pc = "idle"
    /\ hist.hits > 0
    /\ \E r \in Range(global_entrylist) :
           /\ heap[r].class = "Recording"
           /\ heap[r].groupkey # heap[r].epg_title
           /\ heap[r].is_good \/ heap[r].is_dropped \/ heap[r].is_mastered \/ heap[r].comment # ""
           /\ \E i \in 1..Len(db_rec) : db_rec[i] = RecordingRow(heap[r])
---------------------------------------------------------------------------
(* Properties of the drop log                                              *)

\* the step is the with block of drop_recording, entered from the Drop
\* button
DropCommitStep ==
    /\ pc = "drop_recording"
    /\ ev.key = "dropButton"
    /\ pc' = "drop_recording_remove"

\* C29: the drop log is append-only.  After every step the previous contents
\* of the drop log are a prefix of its contents, and a step after which it
\* holds more lines is a step of drop_recording under the Drop button.
C29_AppendOnly ==
    [][/\ Len(drop_log) <= Len(drop_log')
       /\ SubSeq(drop_log', 1, Len(drop_log)) = drop_log
       /\ drop_log' # drop_log => DropCommitStep]_vars

\* one press of Drop has written the files of two recordings, one after the
\* other
C29_Witness ==
    /\ pc = "idle"
    /\ hist.log_len < Len(drop_log)
    /\ \E i, j \in 1..Len(drop_log) : i < j /\ drop_log[i][2] # drop_log[j][2]

---------------------------------------------------------------------------
(* Properties of a malformed download                                      *)

\* the file names of the download directory that are not of the form
\* "title (year) [key=value] - source"
MalformedNames == {"bad"}

\* process_downloads is at a scanned file with a malformed name and no row
AtMalformed ==
    /\ pc = "process_downloads"
    /\ idx <= Len(files)
    /\ Basename(files[idx]) \in MalformedNames
    /\ ~HasRow(db_dl, Basename(files[idx]))

\* no row and no object in memory is a Download with a malformed name
NoMalformedEntry ==
    /\ \A i \in 1..Len(db_dl) : db_dl[i].file_basename \notin MalformedNames
    /\ \A r \in 1..Len(heap) :
           heap[r].class = "Download" => heap[r].file_basename \notin MalformedNames

\* C30: a malformed download filename is fatal and leaves no trace.  At a
\* scanned download without row whose name does not match the pattern,
\* process_downloads ends the process with both tables, global_entrylist
\* and the objects in memory as they were; no state has a row or a Download
\* of such a name.
C30_MalformedFatal ==
    /\ []NoMalformedEntry
    /\ [][AtMalformed =>
              /\ pc' = "aborted"
              /\ db_dl' = db_dl /\ db_rec' = db_rec
              /\ global_entrylist' = global_entrylist /\ heap' = heap]_vars

\* process_downloads has ended at the malformed file, after it had saved
\* and appended the download before it
C30_Witness ==
    /\ pc = "aborted"
    /\ idx <= Len(files)
    /\ files[idx] \in DlPaths
    /\ Basename(files[idx]) \in MalformedNames
    /\ HasRow(db_dl, "d1")
    /\ \E r \in Range(global_entrylist) : heap[r].class = "Download"

---------------------------------------------------------------------------
(* make_groupkey alone: two strings of up to MaxKeyLen characters, the      *)
(* second made from the first by changing the case of ASCII letters and by  *)
(* inserting and removing characters that are neither letters nor digits;   *)
(* heap holds each string with the groupkey make_groupkey gives it.         *)

MaxKeyLen == 3

\* characters of every kind make_groupkey distinguishes: an ASCII letter in
\* both cases, a digit, two characters that are neither, a translated letter
\* in both cases and the translated letter without an upper case
KeyAlphabet == {"T", "t", "1", "-", "!", "Ä", "ä", "ß"}

\* the characters that are neither letters nor digits
KeyOthers == {"-", "!"}

\* the strings of up to n characters
KeyStrings(n) == UNION {[1..k -> KeyAlphabet] : k \in 0..n}

\* the ASCII letter in the other case; every other character as it is
SwapCase(c) ==
    IF \E i \in 1..26 : UpperLetters[i] = c
    THEN LowerLetters[CHOOSE i \in 1..26 : UpperLetters[i] = c]
    ELSE IF \E i \in 1..26 : LowerLetters[i] = c
         THEN UpperLetters[CHOOSE i \in 1..26 : LowerLetters[i] = c]
         ELSE c

\* a string with the groupkey make_groupkey computes for it
Keyed(line) == [line |-> line, groupkey |-> make_groupkey(line)]

InitKey ==
    /\ disk = InitDisk
    /\ drop_log = <<>>
    /\ db_rec = <<>>
    /\ db_dl = <<>>
    /\ pc = "make_groupkey"
    /\ \E line \in KeyStrings(MaxKeyLen) : heap = <<Keyed(line), Keyed(line)>>
    /\ global_entrylist = <<>>
    /\ files = <<>>
    /\ idx = 1
    /\ db_count = 0
    /\ cur = 0
    /\ all_downloads = <<>>
    /\ sel = <<>>
    /\ ev = NoEvent
    /\ for_deletion = <<>>
    /\ report = NoReport
    /\ radios = <<"title", "ASC">>
    /\ nenv = 0
    /\ nevents = 0
    /\ hist = InitHist

\* make_groupkey is called with the string line in place of the second one
KeyCall(line) ==
    /\ pc = "make_groupkey"
    /\ Len(line) <= MaxKeyLen
    /\ heap' = [heap EXCEPT ![2] = Keyed(line)]
    /\ UNCHANGED <<disk, drop_log, storeVars, pc, global_entrylist, files, idx, db_count,
                   cur, all_downloads, sel, ev, for_deletion, report, radios,
                   nenv, nevents, hist>>

\* the second string with the ASCII letter at position i in the other case
KeySwapCase(i) ==
    /\ i \in 1..Len(heap[2].line)
    /\ SwapCase(heap[2].line[i]) # heap[2].line[i]
    /\ KeyCall([heap[2].line EXCEPT ![i] = SwapCase(@)])

\* the second string with the character c, neither letter nor digit,
\* inserted after position i
KeyInsert(i, c) ==
    /\ i \in 0..Len(heap[2].line)
    /\ c \in KeyOthers
    /\ KeyCall(SubSeq(heap[2].line, 1, i) \o <<c>> \o
               SubSeq(heap[2].line, i + 1, Len(heap[2].line)))

\* the second string without its character at position i, which is neither
\* letter nor digit
KeyRemove(i) ==
    /\ i \in 1..Len(heap[2].line)
    /\ heap[2].line[i] \in KeyOthers
    /\ KeyCall(SubSeq(heap[2].line, 1, i - 1) \o
               SubSeq(heap[2].line, i + 1, Len(heap[2].line)))

NextKey ==
    \/ \E i \in 1..MaxKeyLen : KeySwapCase(i)
    \/ \E i \in 0..MaxKeyLen, c \in KeyOthers : KeyInsert(i, c)
    \/ \E i \in 1..MaxKeyLen : KeyRemove(i)

SpecKey == InitKey /\ [][NextKey]_vars

\* C27: make_groupkey is idempotent and total.  For every string,
\* make_groupkey gives a string of the characters a-z and 0-9 only (the 26
\* ASCII letters, no umlaut), and make_groupkey of that string is the string
\* itself.
C27_Idempotent ==
    \A r \in 1..Len(heap) :
        /\ heap[r].groupkey \in Seq(Range(SubSeq(LowerLetters, 1, 26)) \cup Range(Digits))
        /\ make_groupkey(heap[r].groupkey) = heap[r].groupkey

\* make_groupkey was given a string with an upper-case letter, a translated
\* letter and a character it removes, and gave a string that is neither
\* empty nor the one it was given
C27_Witness ==
    /\ pc = "make_groupkey"
    /\ heap[2].line # heap[1].line
    /\ {"T", "ß", "-"} \subseteq Range(heap[2].line)
    /\ heap[2].groupkey = <<"t", "s", "s">>

\* C28: make_groupkey ignores letter case and the characters that are
\* neither letters nor digits.  Two strings that differ only in the case of
\* ASCII letters and in inserted characters that are neither letters nor
\* digits have the same groupkey.
C28_CaseAndOthersIgnored ==
    pc = "make_groupkey" => heap[1].groupkey = heap[2].groupkey

\* the two strings differ in the case of a letter and in an inserted
\* character, and their groupkey is not empty
C28_Witness ==
    /\ pc = "make_groupkey"
    /\ heap[1].line = <<"T", "t">>
    /\ heap[2].line = <<"t", "-", "T">>
    /\ heap[2].groupkey = <<"t", "t">>
---------------------------------------------------------------------------
(* A later session: the program is started on the store an earlier session *)
(* has left.  That session ran over the files of InitDisk, saved the       *)
(* Recordings r1 and r2 and the Download d1, and the user gave r1 one of    *)
(* the flag choices; since then the files of r1 may have been deleted.      *)

\* the entries the earlier session built: one per basename
SessionEntries ==
    << from_meta_file(InitDisk, <<"A", "r1">>, E2_META_EXTENSION)[1],
       from_meta_file(InitDisk, <<"A", "r2">>, E2_META_EXTENSION)[1],
       from_video_file(InitDisk, <<"A", "d1">>, DL_VIDEO_EXTENSION) >>

\* the tables that session has left: every entry saved when it was built,
\* r1 saved again when it was flagged
SessionStore(flags) ==
    LET built == SavedAll(<< <<>>, <<>> >>, SessionEntries)
        rec   == [SessionEntries[1] EXCEPT !.is_good = flags.is_good,
                                            !.is_dropped = flags.is_dropped,
                                            !.is_mastered = flags.is_mastered]
    IN  IF rec = SessionEntries[1] THEN built ELSE SavedAll(built, <<rec>>)

\* the files since then: as they were, or with the files of r1 deleted
SessionDisk(gone) ==
    [p \in RecPaths \cup DlPaths |->
        IF gone /\ p \in RecPaths /\ Basename(p) = "r1"
        THEN [InitDisk[p] EXCEPT !.exts = {}]
        ELSE InitDisk[p]]

InitSession ==
    \E flags \in FlagChoices, gone \in BOOLEAN :
        /\ disk = SessionDisk(gone)
        /\ drop_log = <<>>
        /\ db_rec = SessionStore(flags)[1]
        /\ db_dl = SessionStore(flags)[2]
        /\ pc = "off"
        /\ NoProcess
        /\ nenv = 0
        /\ nevents = 0
        /\ hist = InitHist

\* the steps of a session over files that do not change: reconciliation
\* loads every scanned file that has its row and builds a Recording anew
\* after its row was dropped; the user marks, comments and drops
NextSession ==
    \/ Start
    \/ ProcRecHit
    \/ ProcRecNew
    \/ ProcRecFinish
    \/ ProcDlStart
    \/ ProcDlHit
    \/ ProcDlFinish
    \/ \E key \in FlagKeys, positions \in SUBSET (1..Len(global_entrylist)) :
           EvKey(key, positions)
    \/ \E comment \in CommentTexts, positions \in SUBSET (1..Len(global_entrylist)) :
           EvComment(comment, positions)
    \/ EvDrop
    \/ DropLog
    \/ DropRemove
    \/ DropFinish
    \/ EvClose

SpecSession == InitSession /\ [][NextSession]_vars

\* the steps of reconciliation NextSession leaves out are never possible
\* over these files: no scanned recording is without both row and meta file
\* or of another size than its row, and every scanned download has its row
SessionSteps ==
    /\ (pc = "process_recordings" /\ idx <= Len(files)) =>
           IF from_database(db_rec, files[idx]) # <<>>
           THEN SizeAssertHolds(db_rec, disk, files[idx])
           ELSE from_meta_file(disk, files[idx], E2_META_EXTENSION) # <<>>
    /\ (pc = "process_downloads" /\ idx <= Len(files)) =>
           Len(DlMatch(heap, all_downloads, Basename(files[idx]))) = 1

---------------------------------------------------------------------------
(* Properties of the flags                                                 *)

\* C31: drop-commit never meets an entry without a path.  In every state
\* every Recording of global_entrylist with is_dropped has a basepath, and
\* drop_recording is never at a Recording without one.
C31_DroppedHasPath ==
    /\ \A r \in Range(global_entrylist) :
           (heap[r].class = "Recording" /\ heap[r].is_dropped) => heap[r].basepath # NoPath
    /\ (pc = "drop_recording" /\ idx <= Len(sel)) => heap[sel[idx]].basepath # NoPath
\* C32: dropped and mastered never coincide.  From an empty store, after
\* any sequence of reconciliation runs and events no Recording in memory and
\* no row of recordings has is_dropped and is_mastered at the same time.
C32_NeverBoth ==
    /\ \A r \in 1..Len(heap) :
           heap[r].class = "Recording" => ~(heap[r].is_dropped /\ heap[r].is_mastered)
    /\ \A i \in 1..Len(db_rec) : ~(db_rec[i].is_dropped /\ db_rec[i].is_mastered)

\* the key m has been pressed over a dropped Recording, which is dropped in
\* memory and in its row
C32_Witness ==
    /\ pc = "idle"
    /\ "m" \in hist.excl
    /\ \E r \in Range(global_entrylist) :
           /\ heap[r].class = "Recording"
           /\ heap[r].is_dropped
           /\ \E i \in 1..Len(db_rec) : db_rec[i] = RecordingRow(heap[r])
---------------------------------------------------------------------------
(* Properties of the events as a whole                                     *)

\* the rows of the variant of entry e that have its file_basename
RowsOf(e) ==
    SelectSeq(Table(e.class), LAMBDA row : row.file_basename = e.file_basename)

\* the row holds the flags and the comment of the entry (a Download has a
\* comment only)
RowAgrees(row, e) ==
    /\ row.comment = e.comment
    /\ e.class = "Recording" =>
           /\ row.is_good = e.is_good
           /\ row.is_dropped = e.is_dropped
           /\ row.is_mastered = e.is_mastered

\* C33: write-through consistency.  In the event loop, after reconciliation
\* and after every completed event, every entry of global_entrylist has
\* exactly one row of its variant, and the row holds the is_good, is_dropped,
\* is_mastered and comment of the entry.
C33_WriteThrough ==
    pc = "idle" =>
        \A r \in Range(global_entrylist) :
            /\ Len(RowsOf(heap[r])) = 1
            /\ \A i \in 1..Len(RowsOf(heap[r])) : RowAgrees(RowsOf(heap[r])[i], heap[r])
\* the step is an event of the keys d, D, g, G, m, M, c or C, completed or
\* ended by an error
MutationStep ==
    /\ pc = "idle"
    /\ pc' \in {"idle", "aborted"}
    /\ nevents' = nevents + 1
    /\ radios' = radios

\* the file_size of the rows of a basename in a table
StoredSizes(tbl, basename) ==
    {tbl[i].file_size : i \in {n \in 1..Len(tbl) : tbl[n].file_basename = basename}}

\* C34: flag and comment mutations never change a stored file_size.  After
\* an event of a flag key or of a comment the row of every identity that had
\* a row holds the file_size it held before, also the row of a mastered
\* Recording that was loaded with basepath None and file_size 0.
C34_SizeKept ==
    [][MutationStep =>
           \A key \in StoreKeys :
               StoredSizes(Table(key[1]), key[2]) # {} =>
                   StoredSizes(IF key[1] = "Recording" THEN db_rec' ELSE db_dl', key[2])
                       = StoredSizes(Table(key[1]), key[2])]_vars
\* C35: a flag-mark event with no entry selected is a no-op.  A key d, D, g,
\* G, m or M pressed while nothing is selected leaves the process in the
\* event loop with the collection, the objects and both tables as they were.
C35_EmptySelectionNoOp ==
    [][\A key \in FlagKeys :
           EvKey(key, {}) =>
               /\ pc' = "idle"
               /\ global_entrylist' = global_entrylist
               /\ heap' = heap
               /\ db_rec' = db_rec
               /\ db_dl' = db_dl]_vars
\* the attributes the keys d, D, g, G, m, M and a comment set
FlagAttrs == {"is_dropped", "is_good", "is_mastered", "comment"}

\* the attributes in which the object differs after the step
OnlyChanged(r) == {a \in DOMAIN heap[r] : heap'[r][a] # heap[r][a]}

\* a completed mutation: no object is added, every entry keeps its position,
\* one attribute is the only one that changes in any object, and an object
\* that becomes dropped was not mastered, one that becomes mastered was not
\* dropped
MutationFrame ==
    /\ global_entrylist' = global_entrylist
    /\ DOMAIN heap' = DOMAIN heap
    /\ \E a \in FlagAttrs : \A r \in 1..Len(heap) : OnlyChanged(r) \subseteq {a}
    /\ \A r \in 1..Len(heap) :
           /\ "is_dropped" \in OnlyChanged(r) /\ heap'[r].is_dropped => ~heap[r].is_mastered
           /\ "is_mastered" \in OnlyChanged(r) /\ heap'[r].is_mastered => ~heap[r].is_dropped

\* the entries of a list that are not Recordings flagged dropped, in order
Kept(h, list) ==
    SelectSeq(list, LAMBDA r : ~(h[r].class = "Recording" /\ h[r].is_dropped))

\* db_remove_rec of drop-commit: the rows of every entry not flagged dropped
\* and all rows of downloads stay as they are
DropRemoveFrame ==
    /\ db_dl' = db_dl
    /\ \A r \in Range(Kept(heap, global_entrylist)) :
           heap[r].class = "Recording" =>
               SelectSeq(db_rec', LAMBDA row : row.file_basename = heap[r].file_basename)
                   = RowsOf(heap[r])

\* the removal from the list at the end of drop-commit: the entries not
\* flagged dropped are what is left, in their order, and no object changes
DropFinishFrame ==
    /\ heap' = heap
    /\ global_entrylist' = Kept(heap, global_entrylist)

\* C36: mutations and drop-commit have a narrow frame.  A completed flag or
\* comment event changes one attribute only, in entries that satisfy the
\* precondition, and keeps every entry at its position; drop-commit leaves
\* the rows of every entry not flagged dropped and of every Download as they
\* are and leaves exactly these entries in the collection, in their order.
C36_NarrowFrame ==
    [][/\ (MutationStep /\ pc' = "idle") => MutationFrame
       /\ (pc = "drop_recording_remove") => DropRemoveFrame
       /\ (pc = "drop_recording" /\ pc' = "idle") => DropFinishFrame]_vars
====
